---- MODULE Spec2Model ----
(***************************************************************************)
(* bitrise-remote-access-cli: the SSH orchestration layer.                 *)
(*                                                                         *)
(* Go strings are finite sequences of symbols (a symbol stands for a run   *)
(* of characters that the code never splits); the empty string is << >>.   *)
(* A Go error is the chain of its wrappers, outermost first; nil is << >>. *)
(***************************************************************************)
EXTENDS Integers, Sequences, FiniteSets, TLC

VARIABLES
    curItem,            \* CopySpec: the CopyItem being written
    writes,             \* CopySpec: the writes made so far, with what each returned
    remoteFS,           \* the remote host's file system: [files, dirs]
    remoteEnv,          \* the remote host's environment variables, as runWithPty delivers them
    localFS,            \* the local machine's files, by path
    variant,            \* which program runs: "SetupSSH" (goroutines) or "openWithIDE" (synchronous)
    args,               \* the arguments of SetupSSH / CreateClientConfig
    pc,                 \* where the calling goroutine is in SetupSSH / setupRemoteConfig
    config,             \* SetupSSH: config
    bootErr,            \* the error setupRemoteConfig returned
    setupErr,           \* the error SetupSSH returned
    client,             \* setupRemoteConfig: the connection ("none", "open", "closed")
    sourceDir,          \* setupRemoteConfig: sourceDir
    useIdentiyConfig,   \* setupRemoteConfig: useIdentiyConfig
    readmeItem,         \* setupRemoteConfig: readmeItem
    afterDetectionG,    \* the goroutine afterDetection starts: [pc, useIdentityKey, err]
    afterEssentialsG,   \* the goroutine afterEssentials starts: [pc, useIdentityKey, folderPath, err]
    trace,              \* history: the operations carried out and lines logged, in order
    detected,           \* history: the arguments of each onRemoteDetected call
    essentials,         \* history: the arguments of each onEssentialsDone call
    opened,             \* history: the arguments of each onOpenIde call
    outcome,            \* openWithIDE: what SetupRemoteConfig returned, [isMacOs, folder]
    onOpenCalls,        \* history: the arguments of each ide.OnOpen call
    initial,            \* history: the file systems the run started from, [localFS, remoteFS]
    commands,           \* runWithPty: commands
    commandPrefix,      \* runWithPty: commandPrefix
    getResults,         \* runWithPty: getResults
    printed,            \* the line each command of the batch prints on the remote host
    ptyResult           \* what runWithPty returned: [resultMap, err]

copyVars == <<curItem, writes>>

hostVars == <<remoteFS, remoteEnv, localFS>>

bootVars == <<client, sourceDir, useIdentiyConfig, readmeItem>>

histVars == <<trace, detected, essentials, opened>>

syncVars == <<outcome, onOpenCalls>>

inputVars == <<variant, initial>>

ptyVars == <<commands, commandPrefix, getResults, printed, ptyResult>>

flowVars == <<inputVars, ptyVars, args, pc, config, bootErr, setupErr, bootVars,
              afterDetectionG, afterEssentialsG, histVars, syncVars>>

vars == <<copyVars, hostVars, flowVars>>

\* ------------------------------------------------------------------------
\* Bounds of the model
\* ------------------------------------------------------------------------

\* longest CopyItem content / initial remote file content drawn in CopySpec
MaxLen == 2

\* number of consecutive writes of the same CopyItem in CopySpec
MaxWrites == 2

\* ------------------------------------------------------------------------
\* strings, paths, errors
\* ------------------------------------------------------------------------

\* all sequences over S of length at most n
SeqsUpTo(S, n) == UNION {[1..k -> S] : k \in 0..n}

\* strings.Contains(s, sub)
Contains(s, sub) ==
    \E i \in 0..(Len(s) - Len(sub)) : SubSeq(s, i + 1, i + Len(sub)) = sub

\* strings.HasPrefix(s, p)
HasPrefix(s, p) == Len(p) <= Len(s) /\ SubSeq(s, 1, Len(p)) = p

RECURSIVE ReplaceAll(_, _, _)
\* strings.ReplaceAll(s, old, new): non-overlapping matches, left to right;
\* an empty old matches before every symbol and at the end
ReplaceAll(str, old, new) ==
    LET Replaced(s) ==
            IF old = << >>
            THEN IF s = << >> THEN new
                 ELSE new \o <<Head(s)>> \o ReplaceAll(Tail(s), old, new)
            ELSE IF Len(s) < Len(old) THEN s
            ELSE IF HasPrefix(s, old)
                 THEN new \o ReplaceAll(SubSeq(s, Len(old) + 1, Len(s)), old, new)
                 ELSE <<Head(s)>> \o ReplaceAll(Tail(s), old, new)
    IN CHOOSE r \in {Replaced(s) : s \in {str}} : TRUE

RECURSIVE Split(_, _)
\* strings.Split(s, sep) for a one-symbol separator: the fields between
\* separators (always at least one field)
Split(str, sep) ==
    LET Fields(s) ==
            IF \A i \in 1..Len(s) : s[i] # sep THEN <<s>>
            ELSE CHOOSE r \in
                   { <<SubSeq(s, 1, i - 1)>> \o Split(SubSeq(s, i + 1, Len(s)), sep) :
                       i \in {k \in 1..Len(s) :
                                 s[k] = sep /\ \A j \in 1..(k - 1) : s[j] # sep} } : TRUE
    IN CHOOSE r \in {Fields(s) : s \in {str}} : TRUE

\* filepath.Dir(path): everything before the last separator, "." if none
Dir(path) ==
    IF \A i \in 1..Len(path) : path[i] # "/" THEN <<".">>
    ELSE LET i == CHOOSE k \in 1..Len(path) :
                      path[k] = "/" /\ \A j \in (k + 1)..Len(path) : path[j] # "/"
         IN IF i = 1 THEN <<"/">> ELSE SubSeq(path, 1, i - 1)

\* filepath.Join(dir, name): empty elements are ignored
Join(dir, name) ==
    IF dir = << >> THEN name
    ELSE IF name = << >> THEN dir
    ELSE dir \o <<"/">> \o name

\* the nil error
Nil == << >>

\* fmt.Errorf(msg + ": %w", err)
Wrap(msg, err) == <<msg>> \o err

\* errors.Unwrap(err): the wrapped error, nil for an unwrapped one
Unwrap(err) == IF Len(err) <= 1 THEN Nil ELSE Tail(err)

\* all orders in which a Go range statement may visit the keys of a map
Orders(keys) ==
    {o \in [1..Cardinality(keys) -> keys] :
        \A i, j \in 1..Cardinality(keys) : i # j => o[i] # o[j]}

\* ------------------------------------------------------------------------
\* Remote File Writer (ssh/remote_file_operations.go)
\* ------------------------------------------------------------------------

\* var ErrRemoteFileExists
ErrRemoteFileExists == <<"remote file already exists">>

\* the error of fileExistsSFTP's duplicate check
ErrAlreadyContains == <<"remote file already contains the content">>

\* a nil *map[string]string: the placeholder loop is skipped, as it would be
\* for an empty map
NoReplace == << >>

\* type copyItem
copyItem(content, remotePath, replace, append, noDuplicate) ==
    [Content |-> content, RemotePath |-> remotePath, Replace |-> replace,
     Append |-> append, NoDuplicate |-> noDuplicate]

\* whether the remote host holds a file at path (Stat succeeds, test -f)
FileExists(remote, path) == path \in DOMAIN remote.files

\* the content of the remote file at path, empty when there is none
FileAt(remote, path) ==
    IF FileExists(remote, path) THEN remote.files[path] ELSE << >>

\* the remote file system with the file at path set to content
WithFile(remote, path, content) ==
    [remote EXCEPT !.files =
        [p \in (DOMAIN remote.files) \cup {path} |->
            IF p = path THEN content ELSE remote.files[p]]]

\* sftpClient.MkdirAll / mkdir -p
WithDir(remote, dir) == [remote EXCEPT !.dirs = @ \cup {dir}]

RECURSIVE ApplyReplace(_, _, _)
\* the placeholder loop of copyItemSFTP / copyItemSSH, keys visited in order
ApplyReplace(content, replace, order) ==
    IF order = << >> THEN content
    ELSE CHOOSE r \in
           { ApplyReplace(modifiedContent, replace, Tail(order)) :
               modifiedContent \in {ReplaceAll(content, Head(order),
                                                replace[Head(order)])} } : TRUE

\* item.Content after the placeholder loop (untouched when Replace is nil)
ModifiedContent(item, order) == ApplyReplace(item.Content, item.Replace, order)

\* the orders the placeholder loop may take for item
ReplaceOrders(item) == Orders(DOMAIN item.Replace)

\* the failures the file-transfer channel may inject into one copyItemSFTP
SFTPFaults == {"none", "newClient", "stat", "open", "read", "mkdir", "openFile", "write"}

\* the failures the command runner may inject into one copyItemSSH
SSHFaults == {"none", "stat", "mkdir", "write"}

\* fileExistsSFTP, duplicate check on the content of the item as given
fileExistsSFTP(remote, item, fault) ==
    LET file == FileAt(remote, item.RemotePath) IN
    IF fault = "stat"
    THEN [exists |-> FALSE, err |-> <<"check file existence", "stat">>]
    ELSE IF ~FileExists(remote, item.RemotePath) THEN [exists |-> FALSE, err |-> Nil]
    ELSE IF ~item.Append THEN [exists |-> TRUE, err |-> ErrRemoteFileExists]
    ELSE IF ~item.NoDuplicate THEN [exists |-> TRUE, err |-> Nil]
    ELSE IF fault = "open"
    THEN [exists |-> TRUE, err |-> <<"open remote file", "open">>]
    ELSE IF fault = "read"
    THEN [exists |-> TRUE, err |-> <<"read remote file content", "read">>]
    ELSE IF Contains(file, item.Content)
    THEN [exists |-> TRUE, err |-> ErrAlreadyContains]
    ELSE [exists |-> TRUE, err |-> Nil]

\* copyItemSFTP creating the destination file before the existence check
copyItemSFTPCreateFirst(remote, item, order, fault) ==
    LET chk == fileExistsSFTP(remote, item, fault)
        dirs == WithDir(remote, Dir(item.RemotePath))
        old == FileAt(remote, item.RemotePath)
        appending == chk.exists /\ item.Append
        created == IF item.Append /\ FileExists(remote, item.RemotePath) THEN dirs
                   ELSE WithFile(dirs, item.RemotePath, << >>)
        base == IF appending THEN old ELSE << >>
    IN
    IF fault = "newClient"
    THEN [remote |-> remote, err |-> <<"create SFTP client", "sftp">>]
    ELSE IF fault = "mkdir"
    THEN [remote |-> remote, err |-> <<"create remote directories", "mkdir">>]
    ELSE IF fault = "openFile"
    THEN [remote |-> dirs, err |-> <<"create file", "create">>]
    ELSE IF chk.err # Nil
    THEN [remote |-> created, err |-> Wrap("copy to remote", chk.err)]
    ELSE IF fault = "write"
    THEN [remote |-> created, err |-> <<"write destination file", "write">>]
    ELSE [remote |-> WithFile(dirs, item.RemotePath,
                              base \o ModifiedContent(item, order)),
          err |-> Nil]

\* copyItemSFTP: the remote file system and the error it leaves
copyItemSFTP(remote, item, order, fault) ==
    LET chk == fileExistsSFTP(remote, item, fault)
        dirs == WithDir(remote, Dir(item.RemotePath))
        old == FileAt(remote, item.RemotePath)
        appending == chk.exists /\ item.Append
        created == IF appending THEN dirs ELSE WithFile(dirs, item.RemotePath, << >>)
        base == IF appending THEN old ELSE << >>
    IN
    IF fault = "newClient"
    THEN [remote |-> remote, err |-> <<"create SFTP client", "sftp">>]
    ELSE IF chk.err # Nil
    THEN [remote |-> remote, err |-> Wrap("copy to remote", chk.err)]
    ELSE IF fault = "mkdir"
    THEN [remote |-> remote, err |-> <<"create remote directories", "mkdir">>]
    ELSE IF fault = "openFile"
    THEN [remote |-> dirs,
          err |-> IF appending THEN <<"open file for appending", "open">>
                  ELSE <<"create file", "create">>]
    ELSE IF fault = "write"
    THEN [remote |-> created, err |-> <<"write destination file", "write">>]
    ELSE [remote |-> WithFile(dirs, item.RemotePath,
                              base \o ModifiedContent(item, order)),
          err |-> Nil]

\* fileExistsSSH: test -f through the command runner
fileExistsSSH(remote, item, fault) ==
    IF fault = "stat"
    THEN [exists |-> FALSE, err |-> <<"check file existence", "pty">>]
    ELSE IF FileExists(remote, item.RemotePath)
    THEN [exists |-> TRUE, err |-> ErrRemoteFileExists]
    ELSE [exists |-> FALSE, err |-> Nil]

RECURSIVE EchoLines(_)
\* what the echo commands of copyItemSSH leave in the file: every line
\* followed by a newline
EchoLines(lines) ==
    CHOOSE r \in
      { IF ls = << >> THEN << >>
        ELSE Head(ls) \o <<"\n">> \o EchoLines(Tail(ls)) : ls \in {lines} } : TRUE

\* copyItemSSH: the remote file system and the error it leaves
copyItemSSH(remote, item, order, fault) ==
    LET chk == fileExistsSSH(remote, item, fault)
        dirs == WithDir(remote, Dir(item.RemotePath))
        appending == chk.exists /\ item.Append
        base == IF appending THEN FileAt(remote, item.RemotePath) ELSE << >>
        lines == Split(ModifiedContent(item, order), "\n")
    IN
    IF chk.err # Nil
    THEN [remote |-> remote, err |-> Wrap("check remote file", chk.err)]
    ELSE IF fault = "mkdir"
    THEN [remote |-> remote, err |-> <<"create remote directories", "pty">>]
    ELSE IF fault = "write"
    THEN [remote |-> dirs, err |-> <<"write to remote file", "pty">>]
    ELSE [remote |-> WithFile(dirs, item.RemotePath, base \o EchoLines(lines)),
          err |-> Nil]

\* ------------------------------------------------------------------------
\* Connection Parameter Validator
\* ------------------------------------------------------------------------

\* const BitriseHostPattern
BitriseHostPattern == "BitriseRunningVM"

\* the hosts for which net.ParseIP succeeds
IPLiterals == {"10.0.0.5"}

\* the names net.LookupHost resolves
ResolvableNames == {"vm.bitrise.io"}

\* the decimal digits strconv.Atoi reads
DigitValue == [c \in {"0", "1", "2", "3", "4", "5", "6", "7", "8", "9"} |->
                 CASE c = "0" -> 0 [] c = "1" -> 1 [] c = "2" -> 2 [] c = "3" -> 3
                   [] c = "4" -> 4 [] c = "5" -> 5 [] c = "6" -> 6 [] c = "7" -> 7
                   [] c = "8" -> 8 [] c = "9" -> 9]

RECURSIVE DigitsValue(_, _)
\* the number a string of digits denotes, acc being the value read so far
DigitsValue(s, acc) ==
    IF s = << >> THEN acc ELSE DigitsValue(Tail(s), 10 * acc + DigitValue[Head(s)])

\* strconv.Atoi(s): an optional sign followed by at least one digit
Atoi(s) ==
    LET signed == s # << >> /\ Head(s) \in {"+", "-"}
        digits == IF signed THEN Tail(s) ELSE s
    IN IF digits = << >> \/ \E i \in 1..Len(digits) : digits[i] \notin DOMAIN DigitValue
       THEN [ok |-> FALSE, val |-> 0]
       ELSE [ok |-> TRUE,
             val |-> IF signed /\ Head(s) = "-"
                     THEN 0 - DigitsValue(digits, 0) ELSE DigitsValue(digits, 0)]

\* a nil *string
NoPassword == << >>

\* a nil *configEntry
NoConfig ==
    [Host |-> "", HostName |-> "", User |-> "", Port |-> << >>, Password |-> NoPassword]

\* createClientConfig checking p < 0 where the code checks p <= 0
createClientConfigZeroPort(host, port, user, password) ==
    LET p == Atoi(port) IN
    IF host = "" THEN [config |-> NoConfig, err |-> <<"host cannot be empty">>]
    ELSE IF port = << >> THEN [config |-> NoConfig, err |-> <<"port cannot be empty">>]
    ELSE IF user = "" THEN [config |-> NoConfig, err |-> <<"user cannot be empty">>]
    ELSE IF host \notin IPLiterals /\ host \notin ResolvableNames
    THEN [config |-> NoConfig, err |-> <<"invalid host">>]
    ELSE IF ~p.ok \/ p.val < 0 \/ p.val > 65535
    THEN [config |-> NoConfig, err |-> <<"invalid port">>]
    ELSE [config |-> [Host |-> BitriseHostPattern, HostName |-> host, User |-> user,
                      Port |-> port, Password |-> password],
          err |-> Nil]

\* createClientConfig(host, port, user, password)
createClientConfig(host, port, user, password) ==
    LET p == Atoi(port) IN
    IF host = "" THEN [config |-> NoConfig, err |-> <<"host cannot be empty">>]
    ELSE IF port = << >> THEN [config |-> NoConfig, err |-> <<"port cannot be empty">>]
    ELSE IF user = "" THEN [config |-> NoConfig, err |-> <<"user cannot be empty">>]
    ELSE IF host \notin IPLiterals /\ host \notin ResolvableNames
    THEN [config |-> NoConfig, err |-> <<"invalid host">>]
    ELSE IF ~p.ok \/ p.val <= 0 \/ p.val > 65535
    THEN [config |-> NoConfig, err |-> <<"invalid port">>]
    ELSE [config |-> [Host |-> BitriseHostPattern, HostName |-> host, User |-> user,
                      Port |-> port, Password |-> password],
          err |-> Nil]

\* ------------------------------------------------------------------------
\* Local SSH Config Editor
\* ------------------------------------------------------------------------

\* sshConfigPath()
sshConfigPath == "~/.ssh/config"

\* bitriseConfigPath()
bitriseConfigPath == "~/.bitrise/remote-access/ssh_config"

\* the private key file: "~/.ssh/" + sshKeyName
keyPath == "~/.ssh/id_bitrise_remote_access"

\* the public key file of ensureClientKeyOnRemote
pubKeyPath == "~/.ssh/id_bitrise_remote_access.pub"

\* includeLine of ensureBitriseClientConfigIncluded
includeLine == <<"Include", bitriseConfigPath>>

\* description of ensureBitriseClientConfigIncluded: two comment lines
description ==
    << <<"# Added by Bitrise">>, <<"# This will be added again if you remove it.">> >>

\* whether the local machine holds the file
LocalExists(local, path) == path \in DOMAIN local

\* the local files with the file at path set to content
LocalWrite(local, path, content) ==
    [p \in (DOMAIN local) \cup {path} |-> IF p = path THEN content ELSE local[p]]

\* ensureBitriseClientConfigIncluded without the early return on a line equal
\* to includeLine
ensureBitriseClientConfigIncludedNoScan(local, fault) ==
    IF fault = "openConfig" THEN [local |-> local, err |-> <<"open">>]
    ELSE IF ~LocalExists(local, sshConfigPath)
    THEN IF fault = "mkdirSSH"
         THEN [local |-> local, err |-> <<"failed to create directory", "mkdir">>]
         ELSE IF fault = "writeConfig" THEN [local |-> local, err |-> <<"write">>]
         ELSE [local |-> LocalWrite(local, sshConfigPath, <<includeLine>>), err |-> Nil]
    ELSE IF fault = "writeConfig" THEN [local |-> local, err |-> <<"write">>]
    ELSE [local |-> LocalWrite(local, sshConfigPath,
                               description \o <<includeLine>> \o local[sshConfigPath]),
          err |-> Nil]

\* ensureBitriseClientConfigIncluded: files are sequences of lines
ensureBitriseClientConfigIncluded(local, fault) ==
    LET lines == local[sshConfigPath] IN
    IF fault = "openConfig" THEN [local |-> local, err |-> <<"open">>]
    ELSE IF ~LocalExists(local, sshConfigPath)
    THEN IF fault = "mkdirSSH"
         THEN [local |-> local, err |-> <<"failed to create directory", "mkdir">>]
         ELSE IF fault = "writeConfig" THEN [local |-> local, err |-> <<"write">>]
         ELSE [local |-> LocalWrite(local, sshConfigPath, <<includeLine>>), err |-> Nil]
    ELSE IF \E i \in 1..Len(lines) : lines[i] = includeLine
    THEN [local |-> local, err |-> Nil]
    ELSE IF fault = "writeConfig" THEN [local |-> local, err |-> <<"write">>]
    ELSE [local |-> LocalWrite(local, sshConfigPath,
                               description \o <<includeLine>> \o lines),
          err |-> Nil]

\* makeSSHConfigHost keeping the password of a password session as a comment
makeSSHConfigHostWithPassword(cfg, useIdentityOnly) ==
    << <<"Host", cfg.Host, "# Bitrise CI VM">>,
       <<"HostName", cfg.HostName>>,
       <<"User", cfg.User>>,
       <<"Port", cfg.Port>>,
       <<"StrictHostKeyChecking", "no">>,
       <<"CheckHostIP", "no">>,
       <<"IdentitiesOnly", "yes">> >>
    \o IF useIdentityOnly
       THEN << <<"IdentityFile", keyPath>> >>
       ELSE << <<"PreferredAuthentications", "password">>,
               <<"# password", cfg.Password>> >>

\* makeSSHConfigHost: the Host line and its key-value nodes
makeSSHConfigHost(cfg, useIdentityOnly) ==
    << <<"Host", cfg.Host, "# Bitrise CI VM">>,
       <<"HostName", cfg.HostName>>,
       <<"User", cfg.User>>,
       <<"Port", cfg.Port>>,
       <<"StrictHostKeyChecking", "no">>,
       <<"CheckHostIP", "no">>,
       <<"IdentitiesOnly", "yes">> >>
    \o IF useIdentityOnly
       THEN << <<"IdentityFile", keyPath>> >>
       ELSE << <<"PreferredAuthentications", "password">> >>

\* writeSSHClientConfig opening the managed file with O_APPEND instead of O_TRUNC
writeSSHClientConfigAppending(local, cfg, useIdentityKey, fault) ==
    LET content == << <<"# --- Bitrise Generated ---">> >>
                   \o makeSSHConfigHost(cfg, useIdentityKey)
                   \o << <<"# -------------------------">> >>
        old == IF LocalExists(local, bitriseConfigPath)
               THEN local[bitriseConfigPath] ELSE << >>
    IN
    IF fault = "mkdirBitrise"
    THEN [local |-> local, err |-> <<"create directory", "mkdir">>]
    ELSE IF fault = "openBitrise"
    THEN [local |-> local, err |-> <<"open file", "open">>]
    ELSE IF fault = "writeBitrise"
    THEN [local |-> LocalWrite(local, bitriseConfigPath, old), err |-> <<"write">>]
    ELSE [local |-> LocalWrite(local, bitriseConfigPath, old \o content), err |-> Nil]

\* writeSSHClientConfig: the managed file is truncated and rewritten
writeSSHClientConfig(local, cfg, useIdentityKey, fault) ==
    LET content == << <<"# --- Bitrise Generated ---">> >>
                   \o makeSSHConfigHost(cfg, useIdentityKey)
                   \o << <<"# -------------------------">> >>
    IN
    IF fault = "mkdirBitrise"
    THEN [local |-> local, err |-> <<"create directory", "mkdir">>]
    ELSE IF fault = "openBitrise"
    THEN [local |-> local, err |-> <<"open file", "open">>]
    ELSE IF fault = "writeBitrise"
    THEN [local |-> LocalWrite(local, bitriseConfigPath, << >>), err |-> <<"write">>]
    ELSE [local |-> LocalWrite(local, bitriseConfigPath, content), err |-> Nil]

\* setupClientConfig: the include line, then the managed host entry
setupClientConfig(local, cfg, useIdentityKey, fault) ==
    LET inc == ensureBitriseClientConfigIncluded(local, fault)
        wr == writeSSHClientConfig(inc.local, cfg, useIdentityKey, fault)
    IN
    IF inc.err # Nil
    THEN [local |-> inc.local,
          err |-> Wrap("ensure Bitrise SSH cfg inclusion", inc.err)]
    ELSE IF wr.err # Nil
    THEN [local |-> wr.local, err |-> Wrap("update SSH cfg", wr.err)]
    ELSE [local |-> wr.local, err |-> Nil]

\* ------------------------------------------------------------------------
\* Remote Environment Bootstrapper: the steps of setupRemoteConfig
\* ------------------------------------------------------------------------

\* const remoteReadmeFileName
remoteReadmeFileName == <<"README_REMOTE_ACCESS.md">>

\* const sourceDirEnvVar
sourceDirEnvVar == <<"BITRISE_SOURCE_DIR">>

\* const revisionEnvVar
revisionEnvVar == <<"BITRISE_OSX_STACK_REV_ID">>

\* var readmeFile: the embedded README, which names both placeholders
readmeFile ==
    <<"Source code: ", "BITRISE_SOURCE_DIR", "\n",
      "Stack revision: ", "BITRISE_OSX_STACK_REV_ID", "\n">>

\* the content of the local public key file
pubKey == <<"ssh-ed25519 AAAA Bitrise remote access key", "\n">>

\* remotePath of ensureClientKeyOnRemote
authorizedKeysPath == <<".ssh", "/", "authorized_keys">>

\* the shell configs handed to setupShellConfigs
shellConfigs == << <<"~", "/", ".zshrc">>, <<"~", "/", ".bashrc">> >>

\* what echo -e "\ncat /etc/motd\n" appends
motdLines == <<"\n", "cat /etc/motd", "\n", "\n">>

\* isMacOS(osType)
isMacOS(osType) == Contains(osType, <<"darwin">>)

\* isLinux(osType)
isLinux(osType) == Contains(osType, <<"linux-gnu">>)

\* the *net.OpError of a failed dial
OpErrorDial == <<"net.OpError{Op: dial}">>

\* errors.As(err, &opErr) && opErr.Op == "dial"
IsDialError(err) == \E i \in 1..Len(err) : err[i] = OpErrorDial[1]

\* the error SetupSSH returns for an unreachable host
ErrDialHint == <<"dial remote host: please check the SSH arguments">>

\* ConfigErr{err: err}
ConfigErr(err) == <<"ConfigErr">> \o err

\* the readmeItem setupRemoteConfig builds from the detected environment
makeReadmeItem(envMap) ==
    LET dir == envMap.BITRISE_SOURCE_DIR
        revision == IF envMap.BITRISE_OSX_STACK_REV_ID = << >>
                    THEN envMap.BITRISE_STACK_REV_ID
                    ELSE envMap.BITRISE_OSX_STACK_REV_ID
    IN copyItem(readmeFile, Join(dir, remoteReadmeFileName),
                (sourceDirEnvVar :> dir) @@ (revisionEnvVar :> revision),
                FALSE, TRUE)

\* ensureClientKeyOnRemote: the local key pair, then the remote authorized_keys
ensureClientKeyOnRemote(local, fs, fault) ==
    LET generated == IF LocalExists(local, keyPath) THEN local
                     ELSE LocalWrite(LocalWrite(local, keyPath, <<"private key">>),
                                     pubKeyPath, pubKey)
        keyItem == copyItem(generated[pubKeyPath], authorizedKeysPath, NoReplace,
                            TRUE, TRUE)
        copied == copyItemSFTP(fs, keyItem, << >>, fault)
    IN
    IF ~LocalExists(local, keyPath) /\ fault = "keygen"
    THEN [local |-> local, remote |-> fs, err |-> <<"generate SSH key", "exit status">>]
    ELSE IF ~LocalExists(generated, pubKeyPath) \/ fault = "readKey"
    THEN [local |-> generated, remote |-> fs, err |-> <<"read public key", "read">>]
    ELSE IF copied.err # Nil
    THEN [local |-> generated, remote |-> copied.remote,
          err |-> Wrap("append public key to remote authorized_keys", copied.err)]
    ELSE [local |-> generated, remote |-> copied.remote, err |-> Nil]

\* addMotdToShellConfig: grep -qxF "cat /etc/motd" f || echo -e ... >> f
addMotdToShellConfig(fs, shellConfig) ==
    IF \E i \in 1..Len(Split(FileAt(fs, shellConfig), "\n")) :
           Split(FileAt(fs, shellConfig), "\n")[i] = <<"cat /etc/motd">>
    THEN fs
    ELSE WithFile(fs, shellConfig, FileAt(fs, shellConfig) \o motdLines)

RECURSIVE setupShellConfigs(_, _, _)
\* setupShellConfigs: the configs in order, stopping at the first failure;
\* the first okCount edits succeed
setupShellConfigs(fs, configs, okCount) ==
    IF configs = << >> THEN [remote |-> fs, err |-> Nil]
    ELSE IF okCount = 0
    THEN [remote |-> fs, err |-> <<"edit remote shell config", "exit status">>]
    ELSE setupShellConfigs(addMotdToShellConfig(fs, Head(configs)), Tail(configs),
                           okCount - 1)

\* the line logged after removeHostKey succeeded
NoOldHostKeys == "Success: No old host keys remaining"

\* the goroutine of afterDetection / afterEssentials before it is started
NoGoroutine ==
    [pc |-> "none", useIdentityKey |-> FALSE, folderPath |-> << >>, err |-> Nil]

\* afterDetection(useIdentityKey): start the goroutine that writes the local config
afterDetection(useIdentityKey) ==
    /\ afterDetectionG' =
         [NoGoroutine EXCEPT !.pc = "setupClientConfig", !.useIdentityKey = useIdentityKey]
    /\ detected' = Append(detected, useIdentityKey)

\* afterEssentials with a goroutine that does not wait for clientSetupDone
afterEssentialsNoWait(useIdentityKey, folderPath) ==
    /\ afterEssentialsG' =
         [NoGoroutine EXCEPT !.pc = "onOpenIde",
                             !.useIdentityKey = useIdentityKey,
                             !.folderPath = folderPath]
    /\ essentials' = Append(essentials, <<useIdentityKey, folderPath>>)

\* afterEssentials(useIdentityKey, folderPath): start the goroutine that opens the IDE
afterEssentials(useIdentityKey, folderPath) ==
    /\ afterEssentialsG' =
         [NoGoroutine EXCEPT !.pc = "recv clientSetupDone",
                             !.useIdentityKey = useIdentityKey,
                             !.folderPath = folderPath]
    /\ essentials' = Append(essentials, <<useIdentityKey, folderPath>>)

\* ReturnFromSetupRemoteConfig without the deferred client.Close
ReturnFromSetupRemoteConfigNoClose(err, events) ==
    /\ bootErr' = err
    /\ pc' = "setupRemoteConfig returned"
    /\ client' = client
    /\ trace' = trace \o events \o <<"return">>

\* setupRemoteConfig returns err (the deferred client.Close runs first)
ReturnFromSetupRemoteConfig(err, events) ==
    /\ bootErr' = err
    /\ pc' = "setupRemoteConfig returned"
    /\ client' = IF client = "open" THEN "closed" ELSE client
    /\ trace' = trace \o events
                \o (IF client = "open" THEN <<"client.Close">> ELSE << >>)
                \o <<"return">>

\* ------------------------------------------------------------------------
\* SetupSSH: the bootstrap routine and the two goroutines it starts
\* ------------------------------------------------------------------------

\* the argument lists of SetupSSH that are tried
SetupArgs ==
    { [host |-> "10.0.0.5", port |-> <<"2", "2">>, user |-> "vagrant",
       password |-> <<"secret">>],
      [host |-> "vm.bitrise.io", port |-> <<"6", "5", "5", "3", "5">>, user |-> "vagrant",
       password |-> NoPassword],
      [host |-> "", port |-> <<"2", "2">>, user |-> "vagrant", password |-> <<"secret">>],
      [host |-> "10.0.0.5", port |-> << >>, user |-> "vagrant", password |-> <<"secret">>],
      [host |-> "10.0.0.5", port |-> <<"2", "2">>, user |-> "", password |-> <<"secret">>],
      [host |-> "nohost.invalid", port |-> <<"2", "2">>, user |-> "vagrant",
       password |-> <<"secret">>],
      [host |-> "10.0.0.5", port |-> <<"0">>, user |-> "vagrant", password |-> NoPassword],
      [host |-> "10.0.0.5", port |-> <<"6", "5", "5", "3", "6">>, user |-> "vagrant",
       password |-> <<"secret">>],
      [host |-> "vm.bitrise.io", port |-> <<"2", "x">>, user |-> "vagrant",
       password |-> <<"secret">>] }

\* the environments of the remote hosts that are tried
RemoteEnvs ==
    { [BITRISE_SOURCE_DIR |-> dir, OSTYPE |-> os,
       BITRISE_OSX_STACK_REV_ID |-> IF isMacOS(os) THEN <<"osx-rev">> ELSE << >>,
       BITRISE_STACK_REV_ID |-> IF isLinux(os) THEN <<"ubuntu-rev">> ELSE << >>] :
        dir \in {<< >>, <<"/Users/vagrant/git">>},
        os \in {<<"darwin", "23">>, <<"linux-gnu">>, <<"msys">>, << >>} }

\* the remote file systems tried for a host: fresh, holding someone else's
\* key, or bootstrapped by an earlier run
RemoteInits(env) ==
    { [files |-> << >>, dirs |-> {}],
      [files |-> authorizedKeysPath :> <<"ssh-rsa other", "\n">>, dirs |-> {<<".ssh">>}],
      [files |-> (authorizedKeysPath :> (<<"ssh-rsa other", "\n">> \o pubKey))
                 @@ (shellConfigs[1] :> motdLines)
                 @@ (shellConfigs[2] :> motdLines)
                 @@ (Join(env.BITRISE_SOURCE_DIR, remoteReadmeFileName) :> <<"old readme">>),
       dirs |-> {<<".ssh">>}] }

\* the local machines tried: nothing there, a user's own SSH config, or the
\* files an earlier run left
LocalInits ==
    { << >>,
      sshConfigPath :> << <<"Host", "mine">> >>,
      (sshConfigPath :> << includeLine, <<"Host", "mine">> >>)
      @@ (bitriseConfigPath :> << <<"# --- Bitrise Generated ---">> >>)
      @@ (keyPath :> <<"private key">>) @@ (pubKeyPath :> pubKey) }

\* the failures injected into one setupClientConfig
LocalFaults ==
    {"none", "openConfig", "mkdirSSH", "writeConfig", "mkdirBitrise", "openBitrise",
     "writeBitrise"}

\* the failures injected into one ensureClientKeyOnRemote
KeyFaults == {"keygen", "readKey"} \cup SFTPFaults

\* no batch of commands is run
PtyIdle ==
    /\ commands = << >>
    /\ commandPrefix = << >>
    /\ getResults = FALSE
    /\ printed = << >>
    /\ ptyResult = [resultMap |-> << >>, err |-> Nil]

FlowInit ==
    /\ PtyIdle
    /\ variant \in {"SetupSSH", "openWithIDE"}
    /\ args \in SetupArgs
    /\ remoteEnv \in RemoteEnvs
    /\ remoteFS \in RemoteInits(remoteEnv)
    /\ localFS \in LocalInits
    /\ initial = [localFS |-> localFS, remoteFS |-> remoteFS]
    /\ pc = "SetupSSH"
    /\ outcome = [isMacOs |-> FALSE, folder |-> << >>]
    /\ onOpenCalls = << >>
    /\ config = NoConfig
    /\ bootErr = Nil
    /\ setupErr = Nil
    /\ client = "none"
    /\ sourceDir = << >>
    /\ useIdentiyConfig = FALSE
    /\ readmeItem = copyItem(<< >>, << >>, NoReplace, FALSE, FALSE)
    /\ afterDetectionG = NoGoroutine
    /\ afterEssentialsG = NoGoroutine
    /\ trace = << >>
    /\ detected = << >>
    /\ essentials = << >>
    /\ opened = << >>

\* SetupSSH, lines 52-55: validate the arguments
ValidateArguments ==
    /\ variant = "SetupSSH"
    /\ pc = "SetupSSH"
    /\ LET r == createClientConfig(args.host, args.port, args.user, args.password) IN
       IF r.err # Nil
       THEN /\ setupErr' = ConfigErr(r.err)
            /\ pc' = "returned"
            /\ UNCHANGED config
       ELSE /\ config' = r.config
            /\ pc' = "removeHostKey"
            /\ UNCHANGED setupErr
    /\ UNCHANGED <<copyVars, inputVars, ptyVars, syncVars, hostVars, args, bootErr, bootVars, afterDetectionG,
                   afterEssentialsG, histVars>>

\* RemoveHostKey without the check for a missing password
RemoveHostKeyNoPasswordCheck ==
    /\ pc = "removeHostKey"
    /\ \E ok \in BOOLEAN :
         IF ~ok
         THEN /\ ReturnFromSetupRemoteConfig(<<"remove host key", "exit status">>,
                                             <<"removeHostKey">>)
         ELSE /\ pc' = "connectSSHClient"
              /\ trace' = trace \o <<"removeHostKey", NoOldHostKeys>>
              /\ UNCHANGED <<bootErr, client>>
    /\ UNCHANGED <<copyVars, inputVars, ptyVars, syncVars, hostVars, args, config, setupErr,
                   sourceDir, useIdentiyConfig, readmeItem, afterDetectionG,
                   afterEssentialsG, detected, essentials, opened>>

\* setupRemoteConfig, lines 385-394: remove the old host key; without a
\* password there is nothing more to do
RemoveHostKey ==
    /\ pc = "removeHostKey"
    /\ \E ok \in BOOLEAN :
         IF ~ok
         THEN /\ ReturnFromSetupRemoteConfig(<<"remove host key", "exit status">>,
                                             <<"removeHostKey">>)
         ELSE IF config.Password = NoPassword
         THEN /\ ReturnFromSetupRemoteConfig(Nil, <<"removeHostKey", NoOldHostKeys>>)
         ELSE /\ pc' = "connectSSHClient"
              /\ trace' = trace \o <<"removeHostKey", NoOldHostKeys>>
              /\ UNCHANGED <<bootErr, client>>
    /\ UNCHANGED <<copyVars, inputVars, ptyVars, syncVars, hostVars, args, config, setupErr, sourceDir, useIdentiyConfig,
                   readmeItem, afterDetectionG, afterEssentialsG, detected,
                   essentials, opened>>

\* setupRemoteConfig, lines 396-402: dial with the password
ConnectSSHClient ==
    /\ pc = "connectSSHClient"
    /\ \E dial \in {"ok", "dial", "handshake"} :
         CASE dial = "ok" ->
                /\ client' = "open"
                /\ pc' = "runWithPty"
                /\ trace' = Append(trace, "connectSSHClient")
                /\ UNCHANGED bootErr
           [] dial = "dial" ->
                ReturnFromSetupRemoteConfig(OpErrorDial, <<"connectSSHClient">>)
           [] dial = "handshake" ->
                ReturnFromSetupRemoteConfig(
                    <<"start client connection", "ssh: handshake failed">>,
                    <<"connectSSHClient">>)
    /\ UNCHANGED <<copyVars, inputVars, ptyVars, syncVars, hostVars, args, config, setupErr, sourceDir, useIdentiyConfig,
                   readmeItem, afterDetectionG, afterEssentialsG, detected,
                   essentials, opened>>

\* DetectEnvironment keeping the error of a failed batch for later instead of
\* returning it
DetectEnvironmentDeferredError ==
    /\ pc = "runWithPty"
    /\ \E ok \in BOOLEAN :
         bootErr' = IF ok THEN bootErr ELSE <<"wait for session", "exit status">>
    /\ sourceDir' = remoteEnv.BITRISE_SOURCE_DIR
    /\ readmeItem' = makeReadmeItem(remoteEnv)
    /\ pc' = "branch"
    /\ trace' = Append(trace, "runWithPty")
    /\ UNCHANGED <<copyVars, inputVars, ptyVars, syncVars, hostVars, args, config, setupErr,
                   client, useIdentiyConfig, afterDetectionG, afterEssentialsG,
                   detected, essentials, opened>>

\* setupRemoteConfig, lines 404-424: read the environment in one batch and
\* build the README item from it
DetectEnvironment ==
    /\ pc = "runWithPty"
    /\ \E ok \in BOOLEAN :
         IF ~ok
         THEN /\ ReturnFromSetupRemoteConfig(<<"wait for session", "exit status">>,
                                             <<"runWithPty">>)
              /\ UNCHANGED <<sourceDir, readmeItem>>
         ELSE /\ sourceDir' = remoteEnv.BITRISE_SOURCE_DIR
              /\ readmeItem' = makeReadmeItem(remoteEnv)
              /\ pc' = "branch"
              /\ trace' = Append(trace, "runWithPty")
              /\ UNCHANGED <<bootErr, client>>
    /\ UNCHANGED <<copyVars, inputVars, ptyVars, syncVars, hostVars, args, config, setupErr, useIdentiyConfig,
                   afterDetectionG, afterEssentialsG, detected, essentials, opened>>

\* the error of a remote write goes back to the existence or duplication
\* check of the Remote File Writer
EndsInConflict(err) ==
    /\ err # Nil
    /\ <<err[Len(err)]>> \in {ErrRemoteFileExists, ErrAlreadyContains}

\* history: the event the trace keeps when a remote write was rejected so
ConflictEvent(err) ==
    IF EndsInConflict(err) THEN <<"idempotent conflict">> ELSE << >>

\* MacRemoteDetected provisioning the key first and firing the checkpoint after it
MacRemoteDetectedAfterKey ==
    /\ pc = "branch"
    /\ isMacOS(remoteEnv.OSTYPE)
    /\ useIdentiyConfig' = TRUE
    /\ \E fault \in KeyFaults :
         LET r == ensureClientKeyOnRemote(localFS, remoteFS, fault) IN
         /\ localFS' = r.local
         /\ remoteFS' = r.remote
         /\ trace' = trace \o <<"ensureClientKeyOnRemote">>
                \o ConflictEvent(r.err) \o <<
                IF r.err = Nil THEN "Success: SSH key ensured"
                ELSE IF Unwrap(r.err) = ErrRemoteFileExists
                THEN "Info: SSH key already ensured"
                ELSE "Warn: ensure SSH key available on remote",
                "onRemoteDetected">>
    /\ afterDetection(TRUE)
    /\ pc' = "setupShellConfigs"
    /\ UNCHANGED <<copyVars, inputVars, ptyVars, syncVars, remoteEnv, args, config, bootErr,
                   setupErr, client, sourceDir, readmeItem, afterEssentialsG,
                   essentials, opened>>

\* MacRemoteDetected firing the checkpoint before the flag is set
MacRemoteDetectedStaleFlag ==
    /\ pc = "branch"
    /\ isMacOS(remoteEnv.OSTYPE)
    /\ afterDetection(useIdentiyConfig)
    /\ useIdentiyConfig' = TRUE
    /\ pc' = "ensureClientKeyOnRemote"
    /\ trace' = Append(trace, "onRemoteDetected")
    /\ UNCHANGED <<copyVars, inputVars, ptyVars, syncVars, hostVars, args, config, bootErr,
                   setupErr, client, sourceDir, readmeItem, afterEssentialsG,
                   essentials, opened>>

\* setupRemoteConfig, lines 426-429: the macOS branch decides for the
\* identity key and fires the first checkpoint
MacRemoteDetected ==
    /\ pc = "branch"
    /\ isMacOS(remoteEnv.OSTYPE)
    /\ useIdentiyConfig' = TRUE
    /\ afterDetection(TRUE)
    /\ pc' = "ensureClientKeyOnRemote"
    /\ trace' = Append(trace, "onRemoteDetected")
    /\ UNCHANGED <<copyVars, inputVars, ptyVars, syncVars, hostVars, args, config, bootErr, setupErr, client, sourceDir,
                   readmeItem, afterEssentialsG, essentials, opened>>

\* MacEnsureClientKey returning the error of a failed key provisioning
MacEnsureClientKeyFatal ==
    /\ pc = "ensureClientKeyOnRemote"
    /\ \E fault \in KeyFaults :
         LET r == ensureClientKeyOnRemote(localFS, remoteFS, fault) IN
         /\ localFS' = r.local
         /\ remoteFS' = r.remote
         /\ IF r.err # Nil
            THEN ReturnFromSetupRemoteConfig(
                     Wrap("ensure SSH key available on remote", r.err),
                     <<"ensureClientKeyOnRemote">>)
            ELSE /\ trace' = trace \o <<"ensureClientKeyOnRemote",
                                         "Success: SSH key ensured">>
                 /\ pc' = "setupShellConfigs"
                 /\ UNCHANGED <<bootErr, client>>
    /\ UNCHANGED <<copyVars, inputVars, ptyVars, syncVars, remoteEnv, args, config, setupErr,
                   sourceDir, useIdentiyConfig, readmeItem, afterDetectionG,
                   afterEssentialsG, detected, essentials, opened>>

\* setupRemoteConfig, lines 431-440: provision the key, log the outcome
MacEnsureClientKey ==
    /\ pc = "ensureClientKeyOnRemote"
    /\ \E fault \in KeyFaults :
         LET r == ensureClientKeyOnRemote(localFS, remoteFS, fault) IN
         /\ localFS' = r.local
         /\ remoteFS' = r.remote
         /\ trace' = trace \o <<"ensureClientKeyOnRemote">>
                \o ConflictEvent(r.err) \o <<
                IF r.err = Nil THEN "Success: SSH key ensured"
                ELSE IF Unwrap(r.err) = ErrRemoteFileExists
                THEN "Info: SSH key already ensured"
                ELSE "Warn: ensure SSH key available on remote">>
    /\ pc' = "setupShellConfigs"
    /\ UNCHANGED <<copyVars, inputVars, ptyVars, syncVars, remoteEnv, args, config, bootErr, setupErr, bootVars,
                   afterDetectionG, afterEssentialsG, detected, essentials, opened>>

\* MacSetupShellConfigs going on to the README copy, the second checkpoint left out
MacSetupShellConfigsThenReadme ==
    /\ pc = "setupShellConfigs"
    /\ \E okCount \in 0..Len(shellConfigs) :
         LET r == setupShellConfigs(remoteFS, shellConfigs, okCount) IN
         /\ remoteFS' = r.remote
         /\ trace' = trace \o <<"setupShellConfigs",
                IF r.err = Nil THEN "Success: MOTD added to shell configs"
                ELSE "Info: modifying shell config">>
    /\ pc' = "copyItemSFTP"
    /\ UNCHANGED <<copyVars, inputVars, ptyVars, syncVars, remoteEnv, localFS, args, config,
                   bootErr, setupErr, bootVars, afterDetectionG, afterEssentialsG,
                   detected, essentials, opened>>

\* setupRemoteConfig, lines 442-447: the MOTD lines, log the outcome
MacSetupShellConfigs ==
    /\ pc = "setupShellConfigs"
    /\ \E okCount \in 0..Len(shellConfigs) :
         LET r == setupShellConfigs(remoteFS, shellConfigs, okCount) IN
         /\ remoteFS' = r.remote
         /\ trace' = trace \o <<"setupShellConfigs",
                IF r.err = Nil THEN "Success: MOTD added to shell configs"
                ELSE "Info: modifying shell config">>
    /\ pc' = "onEssentialsDone"
    /\ UNCHANGED <<copyVars, inputVars, ptyVars, syncVars, remoteEnv, localFS, args, config, bootErr, setupErr, bootVars,
                   afterDetectionG, afterEssentialsG, detected, essentials, opened>>

\* setupRemoteConfig, line 449: the macOS branch fires the second checkpoint
MacEssentialsDone ==
    /\ pc = "onEssentialsDone"
    /\ afterEssentials(useIdentiyConfig, sourceDir)
    /\ pc' = "copyItemSFTP"
    /\ trace' = Append(trace, "onEssentialsDone")
    /\ UNCHANGED <<copyVars, inputVars, ptyVars, syncVars, hostVars, args, config, bootErr, setupErr, bootVars,
                   afterDetectionG, detected, opened>>

\* the line setupRemoteConfig logs after copying the README
ReadmeLog(err) ==
    IF err = Nil THEN "Success: README file copied"
    ELSE IF err = ErrRemoteFileExists THEN "Info: README file already copied"
    ELSE "Warn: copy README file to remote"

\* setupRemoteConfig, lines 451-460: the macOS branch copies the README
MacCopyReadme ==
    /\ pc = "copyItemSFTP"
    /\ \E order \in ReplaceOrders(readmeItem), fault \in SFTPFaults :
         LET r == copyItemSFTP(remoteFS, readmeItem, order, fault) IN
         /\ remoteFS' = r.remote
         /\ trace' = trace \o <<"copyItemSFTP">> \o ConflictEvent(r.err)
                             \o <<ReadmeLog(r.err)>>
    /\ pc' = "return"
    /\ UNCHANGED <<copyVars, inputVars, ptyVars, syncVars, remoteEnv, localFS, args, config, bootErr, setupErr, bootVars,
                   afterDetectionG, afterEssentialsG, detected, essentials, opened>>

\* LinuxRemoteDetected provisioning the identity key as the macOS branch does
LinuxRemoteDetectedWithKey ==
    /\ pc = "branch"
    /\ ~isMacOS(remoteEnv.OSTYPE)
    /\ isLinux(remoteEnv.OSTYPE)
    /\ afterDetection(useIdentiyConfig)
    /\ \E fault \in KeyFaults :
         LET r == ensureClientKeyOnRemote(localFS, remoteFS, fault) IN
         /\ localFS' = r.local
         /\ remoteFS' = r.remote
    /\ pc' = "linux onEssentialsDone"
    /\ trace' = Append(trace, "onRemoteDetected")
    /\ UNCHANGED <<copyVars, inputVars, ptyVars, syncVars, remoteEnv, args, config, bootErr,
                   setupErr, bootVars, afterEssentialsG, essentials, opened>>

\* setupRemoteConfig, lines 461-469: the Linux branch fires the first checkpoint
LinuxRemoteDetected ==
    /\ pc = "branch"
    /\ ~isMacOS(remoteEnv.OSTYPE)
    /\ isLinux(remoteEnv.OSTYPE)
    /\ afterDetection(useIdentiyConfig)
    /\ pc' = "linux onEssentialsDone"
    /\ trace' = Append(trace, "onRemoteDetected")
    /\ UNCHANGED <<copyVars, inputVars, ptyVars, syncVars, hostVars, args, config, bootErr, setupErr, bootVars,
                   afterEssentialsG, essentials, opened>>

\* LinuxEssentialsDone using /bitrise/src whatever was detected
LinuxEssentialsDoneAlwaysFallback ==
    /\ pc = "linux onEssentialsDone"
    /\ sourceDir' = <<"/bitrise/src">>
    /\ afterEssentials(useIdentiyConfig, sourceDir')
    /\ pc' = "copyItemSSH"
    /\ trace' = Append(trace, "onEssentialsDone")
    /\ UNCHANGED <<copyVars, inputVars, ptyVars, syncVars, hostVars, args, config, bootErr,
                   setupErr, client, useIdentiyConfig, readmeItem, afterDetectionG,
                   detected, opened>>

\* setupRemoteConfig, lines 471-475: the Linux branch falls back to
\* /bitrise/src and fires the second checkpoint
LinuxEssentialsDone ==
    /\ pc = "linux onEssentialsDone"
    /\ sourceDir' = IF sourceDir = << >> THEN <<"/bitrise/src">> ELSE sourceDir
    /\ afterEssentials(useIdentiyConfig, sourceDir')
    /\ pc' = "copyItemSSH"
    /\ trace' = Append(trace, "onEssentialsDone")
    /\ UNCHANGED <<copyVars, inputVars, ptyVars, syncVars, hostVars, args, config, bootErr, setupErr, client,
                   useIdentiyConfig, readmeItem, afterDetectionG, detected, opened>>

\* setupRemoteConfig, lines 477-486: the Linux branch copies the README
LinuxCopyReadme ==
    /\ pc = "copyItemSSH"
    /\ \E order \in ReplaceOrders(readmeItem), fault \in SSHFaults :
         LET r == copyItemSSH(remoteFS, readmeItem, order, fault) IN
         /\ remoteFS' = r.remote
         /\ trace' = trace \o <<"copyItemSSH">> \o ConflictEvent(r.err)
                             \o <<ReadmeLog(r.err)>>
    /\ pc' = "return"
    /\ UNCHANGED <<copyVars, inputVars, ptyVars, syncVars, remoteEnv, localFS, args, config, bootErr, setupErr, bootVars,
                   afterDetectionG, afterEssentialsG, detected, essentials, opened>>

\* UnknownRemoteDetected going on to the second checkpoint without firing the first
UnknownRemoteDetectedSkipped ==
    /\ pc = "branch"
    /\ ~isMacOS(remoteEnv.OSTYPE)
    /\ ~isLinux(remoteEnv.OSTYPE)
    /\ pc' = "unknown onEssentialsDone"
    /\ trace' = Append(trace, "Warn: Unrecognized OS type")
    /\ UNCHANGED <<copyVars, inputVars, ptyVars, syncVars, hostVars, args, config, bootErr,
                   setupErr, bootVars, afterDetectionG, afterEssentialsG, detected,
                   essentials, opened>>

\* setupRemoteConfig, lines 487-490: an unrecognized OS, first checkpoint
UnknownRemoteDetected ==
    /\ pc = "branch"
    /\ ~isMacOS(remoteEnv.OSTYPE)
    /\ ~isLinux(remoteEnv.OSTYPE)
    /\ afterDetection(useIdentiyConfig)
    /\ pc' = "unknown onEssentialsDone"
    /\ trace' = trace \o <<"Warn: Unrecognized OS type", "onRemoteDetected">>
    /\ UNCHANGED <<copyVars, inputVars, ptyVars, syncVars, hostVars, args, config, bootErr, setupErr, bootVars,
                   afterEssentialsG, essentials, opened>>

\* setupRemoteConfig, line 491: an unrecognized OS, second checkpoint
UnknownEssentialsDone ==
    /\ pc = "unknown onEssentialsDone"
    /\ afterEssentials(useIdentiyConfig, sourceDir)
    /\ pc' = "return"
    /\ trace' = Append(trace, "onEssentialsDone")
    /\ UNCHANGED <<copyVars, inputVars, ptyVars, syncVars, hostVars, args, config, bootErr, setupErr, bootVars,
                   afterDetectionG, detected, opened>>

\* setupRemoteConfig, line 494: return nil, closing the client
ReturnNil ==
    /\ pc = "return"
    /\ ReturnFromSetupRemoteConfig(Nil, << >>)
    /\ UNCHANGED <<copyVars, inputVars, ptyVars, syncVars, hostVars, args, config, setupErr, sourceDir, useIdentiyConfig,
                   readmeItem, afterDetectionG, afterEssentialsG, detected,
                   essentials, opened>>

\* HandleBootstrapError treating a dial error like any other error
HandleBootstrapErrorNoDialCase ==
    /\ pc = "setupRemoteConfig returned"
    /\ pc' = "recv ideLaunchDone"
    /\ trace' = IF bootErr # Nil THEN Append(trace, "Warn: bootstrap error") ELSE trace
    /\ UNCHANGED <<copyVars, inputVars, ptyVars, syncVars, hostVars, args, config, bootErr,
                   setupErr, bootVars, afterDetectionG, afterEssentialsG, detected,
                   essentials, opened>>

\* HandleBootstrapError returning without the receive on ideLaunchDone
HandleBootstrapErrorNoReceive ==
    /\ pc = "setupRemoteConfig returned"
    /\ setupErr' = IF bootErr # Nil /\ IsDialError(bootErr) THEN ErrDialHint ELSE Nil
    /\ pc' = "returned"
    /\ trace' = IF bootErr # Nil /\ ~IsDialError(bootErr)
                THEN Append(trace, "Warn: bootstrap error") ELSE trace
    /\ UNCHANGED <<copyVars, inputVars, ptyVars, syncVars, hostVars, args, config, bootErr,
                   bootVars, afterDetectionG, afterEssentialsG, detected, essentials,
                   opened>>

\* SetupSSH, lines 85-91: a dial error is returned with a hint, any other
\* error is logged
HandleBootstrapError ==
    /\ pc = "setupRemoteConfig returned"
    /\ IF bootErr # Nil /\ IsDialError(bootErr)
       THEN /\ setupErr' = ErrDialHint
            /\ pc' = "returned"
            /\ UNCHANGED trace
       ELSE /\ pc' = "recv ideLaunchDone"
            /\ trace' = IF bootErr # Nil THEN Append(trace, "Warn: bootstrap error")
                        ELSE trace
            /\ UNCHANGED setupErr
    /\ UNCHANGED <<copyVars, inputVars, ptyVars, syncVars, hostVars, args, config, bootErr, bootVars, afterDetectionG,
                   afterEssentialsG, detected, essentials, opened>>

\* SetupSSH, line 94 with line 77 or 80: the value sent on ideLaunchDone is
\* received and returned
ReceiveIdeLaunchDone ==
    /\ pc = "recv ideLaunchDone"
    /\ afterEssentialsG.pc = "send ideLaunchDone"
    /\ setupErr' = afterEssentialsG.err
    /\ pc' = "returned"
    /\ afterEssentialsG' = [afterEssentialsG EXCEPT !.pc = "done"]
    /\ UNCHANGED <<copyVars, inputVars, ptyVars, syncVars, hostVars, args, config, bootErr, bootVars, afterDetectionG,
                   histVars>>

\* SetupSSH, line 64: the first goroutine writes the local SSH config
RunSetupClientConfig ==
    /\ afterDetectionG.pc = "setupClientConfig"
    /\ \E fault \in LocalFaults :
         LET r == setupClientConfig(localFS, config, afterDetectionG.useIdentityKey,
                                    fault) IN
         /\ localFS' = r.local
         /\ afterDetectionG' =
              [afterDetectionG EXCEPT !.pc = "send clientSetupDone", !.err = r.err]
    /\ trace' = Append(trace, "setupClientConfig")
    /\ UNCHANGED <<copyVars, inputVars, ptyVars, syncVars, remoteFS, remoteEnv, args, pc, config, bootErr, setupErr,
                   bootVars, afterEssentialsG, detected, essentials, opened>>

\* PassClientSetupDone opening the IDE whatever the config write returned
PassClientSetupDoneIgnoringError ==
    /\ afterDetectionG.pc = "send clientSetupDone"
    /\ afterEssentialsG.pc = "recv clientSetupDone"
    /\ afterDetectionG' = [afterDetectionG EXCEPT !.pc = "done"]
    /\ afterEssentialsG' = [afterEssentialsG EXCEPT !.pc = "onOpenIde"]
    /\ UNCHANGED <<copyVars, inputVars, ptyVars, syncVars, hostVars, args, pc, config, bootErr,
                   setupErr, bootVars, histVars>>

\* SetupSSH, lines 65/67 with line 76: the result of the config write passes
\* over clientSetupDone; an error goes straight on to ideLaunchDone
PassClientSetupDone ==
    /\ afterDetectionG.pc = "send clientSetupDone"
    /\ afterEssentialsG.pc = "recv clientSetupDone"
    /\ afterDetectionG' = [afterDetectionG EXCEPT !.pc = "done"]
    /\ afterEssentialsG' =
         IF afterDetectionG.err # Nil
         THEN [afterEssentialsG EXCEPT !.pc = "send ideLaunchDone",
                                       !.err = afterDetectionG.err]
         ELSE [afterEssentialsG EXCEPT !.pc = "onOpenIde"]
    /\ UNCHANGED <<copyVars, inputVars, ptyVars, syncVars, hostVars, args, pc, config, bootErr, setupErr, bootVars, histVars>>

\* SetupSSH, line 80: the second goroutine opens the IDE
CallOnOpenIde ==
    /\ afterEssentialsG.pc = "onOpenIde"
    /\ \E err \in {Nil, <<"open IDE">>} :
         afterEssentialsG' =
             [afterEssentialsG EXCEPT !.pc = "send ideLaunchDone", !.err = err]
    /\ opened' = Append(opened, <<afterEssentialsG.useIdentityKey,
                                  afterEssentialsG.folderPath>>)
    /\ trace' = Append(trace, "onOpenIde")
    /\ UNCHANGED <<copyVars, inputVars, ptyVars, syncVars, hostVars, args, pc, config, bootErr, setupErr, bootVars,
                   afterDetectionG, detected, essentials>>

\* ------------------------------------------------------------------------
\* openWithIDE (main.go) over SetupRemoteConfig (ssh/ssh.go): the synchronous
\* variant of the bootstrap
\* ------------------------------------------------------------------------

\* makeSSHConfigHost of ssh/ssh.go
sshgo_makeSSHConfigHost(cfg, useIdentityOnly) ==
    << <<"Host", cfg.Host, "# Bitrise CI VM">>,
       <<"HostName", cfg.HostName>>,
       <<"User", cfg.User>>,
       <<"Port", cfg.Port>>,
       <<"StrictHostKeyChecking", "no">>,
       <<"CheckHostIP", "no">> >>
    \o IF useIdentityOnly
       THEN << <<"IdentityFile", keyPath>>, <<"IdentitiesOnly", "yes">> >>
       ELSE << >>

\* writeSSHClientConfig of ssh/ssh.go
sshgo_writeSSHClientConfig(local, cfg, addIdentityKey, fault) ==
    LET content == << <<"# --- Bitrise Generated ---">> >>
                   \o sshgo_makeSSHConfigHost(cfg, addIdentityKey)
                   \o << <<"# -------------------------">> >>
    IN
    IF fault = "mkdirBitrise"
    THEN [local |-> local, err |-> <<"create directory", "mkdir">>]
    ELSE IF fault = "openBitrise"
    THEN [local |-> local, err |-> <<"open file", "open">>]
    ELSE IF fault = "writeBitrise"
    THEN [local |-> LocalWrite(local, bitriseConfigPath, << >>), err |-> <<"write">>]
    ELSE [local |-> LocalWrite(local, bitriseConfigPath, content), err |-> Nil]

\* SetupClientConfig of ssh/ssh.go
SetupClientConfig(local, cfg, addIdentityKey, fault) ==
    LET inc == ensureBitriseClientConfigIncluded(local, fault)
        wr == sshgo_writeSSHClientConfig(inc.local, cfg, addIdentityKey, fault)
    IN
    IF inc.err # Nil
    THEN [local |-> inc.local,
          err |-> Wrap("ensure Bitrise SSH config inclusion", inc.err)]
    ELSE IF wr.err # Nil
    THEN [local |-> wr.local, err |-> Wrap("update SSH config", wr.err)]
    ELSE [local |-> wr.local, err |-> Nil]

\* EnsureClientKeyOnRemote of ssh/ssh.go: ssh-keygen, then ssh-copy-id, which
\* installs the key unless the host has it
EnsureClientKeyOnRemote(local, fs, fault) ==
    LET generated == IF LocalExists(local, keyPath) THEN local
                     ELSE LocalWrite(LocalWrite(local, keyPath, <<"private key">>),
                                     pubKeyPath, pubKey)
        keys == FileAt(fs, authorizedKeysPath)
    IN
    IF ~LocalExists(local, keyPath) /\ fault = "keygen"
    THEN [local |-> local, remote |-> fs, err |-> <<"generate SSH key", "exit status">>]
    ELSE IF fault = "copy"
    THEN [local |-> generated, remote |-> fs,
          err |-> <<"copy SSH key to remote host", "exit status">>]
    ELSE [local |-> generated,
          remote |-> IF Contains(keys, pubKey) THEN fs
                     ELSE WithFile(WithDir(fs, Dir(authorizedKeysPath)),
                                   authorizedKeysPath, keys \o pubKey),
          err |-> Nil]

\* copyReadmeToRemote of ssh/ssh.go: never overwrites
copyReadmeToRemote(fs, remoteFilePath, replace, order, fault) ==
    IF fault = "newClient" THEN [remote |-> fs, err |-> <<"create SFTP client", "sftp">>]
    ELSE IF fault = "stat" THEN [remote |-> fs, err |-> <<"check file existence", "stat">>]
    ELSE IF FileExists(fs, remoteFilePath)
    THEN [remote |-> fs, err |-> <<"remote file already exists: path">>]
    ELSE IF fault = "openFile" THEN [remote |-> fs, err |-> <<"create">>]
    ELSE IF fault = "write"
    THEN [remote |-> WithFile(fs, remoteFilePath, << >>),
          err |-> <<"write destination file", "write">>]
    ELSE [remote |-> WithFile(fs, remoteFilePath, ApplyReplace(readmeFile, replace, order)),
          err |-> Nil]

\* SetupRemoteConfig returns (isMacOs, folder, err); the deferred
\* client.Close runs first
ReturnFromSetupRemoteConfigSync(isMacOs, folder, err, events) ==
    /\ outcome' = [isMacOs |-> isMacOs, folder |-> folder]
    /\ bootErr' = err
    /\ pc' = "SetupRemoteConfig returned"
    /\ client' = IF client = "open" THEN "closed" ELSE client
    /\ trace' = trace \o events
                \o (IF client = "open" THEN <<"client.Close">> ELSE << >>)
                \o <<"return">>

\* entry, lines 124-128: validate the arguments
SyncValidateArguments ==
    /\ variant = "openWithIDE"
    /\ pc = "SetupSSH"
    /\ LET r == createClientConfig(args.host, args.port, args.user, args.password) IN
       IF r.err # Nil
       THEN /\ setupErr' = r.err
            /\ pc' = "returned"
            /\ trace' = Append(trace, "ShowSubcommandHelp")
            /\ UNCHANGED config
       ELSE /\ config' = r.config
            /\ pc' = "sync removeHostKey"
            /\ UNCHANGED <<setupErr, trace>>
    /\ UNCHANGED <<copyVars, hostVars, inputVars, ptyVars, args, bootErr, bootVars,
                   afterDetectionG, afterEssentialsG, detected, essentials, opened,
                   syncVars>>

\* SetupRemoteConfig, lines 440-449
SyncRemoveHostKey ==
    /\ pc = "sync removeHostKey"
    /\ \E ok \in BOOLEAN :
         IF ~ok
         THEN ReturnFromSetupRemoteConfigSync(FALSE, << >>,
                  <<"remove host key", "exit status">>, <<"removeHostKey">>)
         ELSE IF config.Password = NoPassword
         THEN ReturnFromSetupRemoteConfigSync(FALSE, << >>, Nil,
                                              <<"removeHostKey", NoOldHostKeys>>)
         ELSE /\ pc' = "sync connectSSHClient"
              /\ trace' = trace \o <<"removeHostKey", NoOldHostKeys>>
              /\ UNCHANGED <<bootErr, client, outcome>>
    /\ UNCHANGED <<copyVars, hostVars, inputVars, ptyVars, args, config, setupErr, sourceDir,
                   useIdentiyConfig, readmeItem, afterDetectionG, afterEssentialsG,
                   detected, essentials, opened, onOpenCalls>>

\* SetupRemoteConfig, lines 451-458
SyncConnectSSHClient ==
    /\ pc = "sync connectSSHClient"
    /\ \E dial \in {"ok", "dial", "handshake"} :
         CASE dial = "ok" ->
                /\ client' = "open"
                /\ pc' = "sync getRemoteEnvVars"
                /\ trace' = Append(trace, "connectSSHClient")
                /\ UNCHANGED <<bootErr, outcome>>
           [] dial = "dial" ->
                ReturnFromSetupRemoteConfigSync(FALSE, << >>, OpErrorDial,
                                                <<"connectSSHClient">>)
           [] dial = "handshake" ->
                ReturnFromSetupRemoteConfigSync(FALSE, << >>,
                    <<"start client connection", "ssh: handshake failed">>,
                    <<"connectSSHClient">>)
    /\ UNCHANGED <<copyVars, hostVars, inputVars, ptyVars, args, config, setupErr, sourceDir,
                   useIdentiyConfig, readmeItem, afterDetectionG, afterEssentialsG,
                   detected, essentials, opened, onOpenCalls>>

\* SetupRemoteConfig, lines 460-468 and 499-504: read the environment (a
\* variable that cannot be read counts as empty); a host that is not macOS
\* gets /bitrise/src and nothing else
SyncGetRemoteEnvVars ==
    /\ pc = "sync getRemoteEnvVars"
    /\ useIdentiyConfig' = isMacOS(remoteEnv.OSTYPE)
    /\ IF isMacOS(remoteEnv.OSTYPE)
       THEN /\ sourceDir' = remoteEnv.BITRISE_SOURCE_DIR
            /\ pc' = "sync EnsureClientKeyOnRemote"
            /\ trace' = Append(trace, "getRemoteEnvVars")
            /\ UNCHANGED <<bootErr, client, outcome>>
       ELSE /\ sourceDir' = <<"/bitrise/src">>
            /\ ReturnFromSetupRemoteConfigSync(FALSE, <<"/bitrise/src">>, Nil,
                                               <<"getRemoteEnvVars">>)
    /\ UNCHANGED <<copyVars, hostVars, inputVars, ptyVars, args, config, setupErr, readmeItem,
                   afterDetectionG, afterEssentialsG, detected, essentials, opened,
                   onOpenCalls>>

\* SetupRemoteConfig, lines 470-475: a failed key copy ends the bootstrap
SyncEnsureClientKey ==
    /\ pc = "sync EnsureClientKeyOnRemote"
    /\ \E fault \in {"none", "keygen", "copy"} :
         LET r == EnsureClientKeyOnRemote(localFS, remoteFS, fault) IN
         /\ localFS' = r.local
         /\ remoteFS' = r.remote
         /\ IF r.err # Nil
            THEN ReturnFromSetupRemoteConfigSync(TRUE, sourceDir,
                     Wrap("ensure SSH key available on remote", r.err),
                     <<"EnsureClientKeyOnRemote">>)
            ELSE /\ pc' = "sync copyReadmeToRemote"
                 /\ trace' = Append(trace, "EnsureClientKeyOnRemote")
                 /\ UNCHANGED <<bootErr, client, outcome>>
    /\ UNCHANGED <<copyVars, remoteEnv, inputVars, ptyVars, args, config, setupErr, sourceDir,
                   useIdentiyConfig, readmeItem, afterDetectionG, afterEssentialsG,
                   detected, essentials, opened, onOpenCalls>>

\* SetupRemoteConfig, lines 477-488
SyncCopyReadme ==
    /\ pc = "sync copyReadmeToRemote"
    /\ LET replace == (sourceDirEnvVar :> sourceDir)
                      @@ (revisionEnvVar :> remoteEnv.BITRISE_OSX_STACK_REV_ID) IN
       \E order \in Orders(DOMAIN replace), fault \in {"none", "newClient", "stat",
                                                       "openFile", "write"} :
         remoteFS' = copyReadmeToRemote(remoteFS, Join(sourceDir, remoteReadmeFileName),
                                        replace, order, fault).remote
    /\ pc' = "sync setupShellConfigs"
    /\ trace' = Append(trace, "copyReadmeToRemote")
    /\ UNCHANGED <<copyVars, remoteEnv, localFS, inputVars, ptyVars, args, config, bootErr,
                   setupErr, bootVars, afterDetectionG, afterEssentialsG, detected,
                   essentials, opened, syncVars>>

\* SetupRemoteConfig, lines 493-498 and 504
SyncSetupShellConfigs ==
    /\ pc = "sync setupShellConfigs"
    /\ \E okCount \in 0..Len(shellConfigs) :
         remoteFS' = setupShellConfigs(remoteFS, shellConfigs, okCount).remote
    /\ ReturnFromSetupRemoteConfigSync(TRUE, sourceDir, Nil, <<"setupShellConfigs">>)
    /\ UNCHANGED <<copyVars, remoteEnv, localFS, inputVars, ptyVars, args, config, setupErr,
                   sourceDir, useIdentiyConfig, readmeItem, afterDetectionG,
                   afterEssentialsG, detected, essentials, opened, onOpenCalls>>

\* setupSSH, lines 206-213: a dial error is returned with a hint, any other
\* error is logged
SyncHandleBootstrapError ==
    /\ pc = "SetupRemoteConfig returned"
    /\ IF bootErr # Nil /\ IsDialError(bootErr)
       THEN /\ setupErr' = ErrDialHint
            /\ pc' = "returned"
            /\ UNCHANGED trace
       ELSE /\ pc' = "sync SetupClientConfig"
            /\ trace' = IF bootErr # Nil THEN Append(trace, "Warn: bootstrap error")
                        ELSE trace
            /\ UNCHANGED setupErr
    /\ UNCHANGED <<copyVars, hostVars, inputVars, ptyVars, args, config, bootErr, bootVars,
                   afterDetectionG, afterEssentialsG, detected, essentials, opened,
                   syncVars>>

\* setupSSH, lines 215-221 and openWithIDE, lines 225-228: write the local
\* SSH config
SyncSetupClientConfig ==
    /\ pc = "sync SetupClientConfig"
    /\ \E fault \in LocalFaults :
         LET r == SetupClientConfig(localFS, config, outcome.isMacOs, fault) IN
         /\ localFS' = r.local
         /\ IF r.err # Nil
            THEN /\ setupErr' = r.err
                 /\ pc' = "returned"
            ELSE /\ pc' = IF outcome.folder = << >> THEN "sync Confirm" ELSE "sync OnOpen"
                 /\ UNCHANGED setupErr
    /\ trace' = Append(trace, "SetupClientConfig")
    /\ UNCHANGED <<copyVars, remoteFS, remoteEnv, inputVars, ptyVars, args, config, bootErr,
                   bootVars, afterDetectionG, afterEssentialsG, detected, essentials,
                   opened, syncVars>>

\* what logger.Confirm logs: onYes or onNo when the prompt ran without error
ConfirmLog(confirm, failed) ==
    IF failed THEN << >>
    ELSE IF confirm THEN <<"Info: Using root directory">>
    ELSE <<"Info: Not using root directory, ending session...">>

\* SyncConfirm opening the IDE whatever the prompt returned
SyncConfirmIgnored ==
    /\ pc = "sync Confirm"
    /\ \E confirm \in BOOLEAN, failed \in BOOLEAN :
         trace' = trace \o <<"Confirm">> \o ConfirmLog(confirm, failed)
    /\ pc' = "sync OnOpen"
    /\ UNCHANGED <<copyVars, hostVars, inputVars, ptyVars, args, config, bootErr, setupErr,
                   bootVars, afterDetectionG, afterEssentialsG, detected, essentials,
                   opened, syncVars>>

\* openWithIDE, lines 230-239: ask before using the root directory
SyncConfirm ==
    /\ pc = "sync Confirm"
    /\ \E confirm \in BOOLEAN, failed \in BOOLEAN :
         /\ IF ~confirm \/ failed
            THEN /\ setupErr' = <<"source code location could not be determined">>
                 /\ pc' = "returned"
            ELSE /\ pc' = "sync OnOpen"
                 /\ UNCHANGED setupErr
         /\ trace' = trace \o <<"Confirm">> \o ConfirmLog(confirm, failed)
    /\ UNCHANGED <<copyVars, hostVars, inputVars, ptyVars, args, config, bootErr, bootVars,
                   afterDetectionG, afterEssentialsG, detected, essentials, opened,
                   syncVars>>

\* openWithIDE, line 241: open the IDE on the folder
SyncOnOpen ==
    /\ pc = "sync OnOpen"
    /\ \E err \in {Nil, <<"open IDE">>} : setupErr' = err
    /\ onOpenCalls' = Append(onOpenCalls, <<BitriseHostPattern, outcome.folder>>)
    /\ pc' = "returned"
    /\ trace' = Append(trace, "OnOpen")
    /\ UNCHANGED <<copyVars, hostVars, inputVars, ptyVars, args, config, bootErr, bootVars,
                   afterDetectionG, afterEssentialsG, detected, essentials, opened,
                   outcome>>

\* the steps of the synchronous variant
Synchronous ==
    \/ SyncValidateArguments \/ SyncRemoveHostKey \/ SyncConnectSSHClient
    \/ SyncGetRemoteEnvVars \/ SyncEnsureClientKey \/ SyncCopyReadme
    \/ SyncSetupShellConfigs \/ SyncHandleBootstrapError \/ SyncSetupClientConfig
    \/ SyncConfirm \/ SyncOnOpen

\* the goroutine that called SetupSSH
Caller ==
    \/ ValidateArguments \/ RemoveHostKey \/ ConnectSSHClient \/ DetectEnvironment
    \/ MacRemoteDetected \/ MacEnsureClientKey \/ MacSetupShellConfigs
    \/ MacEssentialsDone \/ MacCopyReadme
    \/ LinuxRemoteDetected \/ LinuxEssentialsDone \/ LinuxCopyReadme
    \/ UnknownRemoteDetected \/ UnknownEssentialsDone
    \/ ReturnNil \/ HandleBootstrapError \/ ReceiveIdeLaunchDone

\* the goroutines SetupSSH starts
Spawned == RunSetupClientConfig \/ PassClientSetupDone \/ CallOnOpenIde

Init ==
    /\ FlowInit
    /\ curItem = copyItem(<< >>, << >>, NoReplace, FALSE, FALSE)
    /\ writes = << >>

Next ==
    \/ ValidateArguments \/ RemoveHostKey \/ ConnectSSHClient \/ DetectEnvironment
    \/ MacRemoteDetected \/ MacEnsureClientKey \/ MacSetupShellConfigs
    \/ MacEssentialsDone \/ MacCopyReadme
    \/ LinuxRemoteDetected \/ LinuxEssentialsDone \/ LinuxCopyReadme
    \/ UnknownRemoteDetected \/ UnknownEssentialsDone
    \/ ReturnNil \/ HandleBootstrapError \/ ReceiveIdeLaunchDone
    \/ RunSetupClientConfig \/ PassClientSetupDone \/ CallOnOpenIde
    \/ SyncValidateArguments \/ SyncRemoveHostKey \/ SyncConnectSSHClient
    \/ SyncGetRemoteEnvVars \/ SyncEnsureClientKey \/ SyncCopyReadme
    \/ SyncSetupShellConfigs \/ SyncHandleBootstrapError \/ SyncSetupClientConfig
    \/ SyncConfirm \/ SyncOnOpen

Spec == Init /\ [][Next]_vars

\* the SetupSSH calls whose arguments pass validation and carry a password
FairInit ==
    /\ Init
    /\ variant = "SetupSSH"
    /\ createClientConfig(args.host, args.port, args.user, args.password).err = Nil
    /\ args.password # NoPassword

FairNext ==
    \/ ValidateArguments \/ RemoveHostKey \/ ConnectSSHClient \/ DetectEnvironment
    \/ MacRemoteDetected \/ MacEnsureClientKey \/ MacSetupShellConfigs
    \/ MacEssentialsDone \/ MacCopyReadme
    \/ LinuxRemoteDetected \/ LinuxEssentialsDone \/ LinuxCopyReadme
    \/ UnknownRemoteDetected \/ UnknownEssentialsDone
    \/ ReturnNil \/ HandleBootstrapError \/ ReceiveIdeLaunchDone
    \/ RunSetupClientConfig \/ PassClientSetupDone \/ CallOnOpenIde

\* SetupSSH under the Go scheduler, which runs every goroutine that can take
\* a step
FairSpec == FairInit /\ [][FairNext]_vars /\ WF_vars(Caller) /\ WF_vars(Spawned)

\* ------------------------------------------------------------------------
\* CopySpec: the Remote File Writer applied repeatedly to one CopyItem
\* ------------------------------------------------------------------------

\* the symbols of contents drawn in CopySpec; K is a placeholder key
CopyAlphabet == {"a", "K"}

\* the remote path written in CopySpec
CopyPath == <<"d", "/", "f">>

\* the placeholder maps drawn in CopySpec (nil, one key, two keys)
CopyReplaces ==
    { NoReplace,
      <<"K">> :> <<"a">>,
      <<"K">> :> << >>,
      <<"K">> :> <<"K", "a">>,
      (<<"K">> :> <<"v">>) @@ (<<"a">> :> <<"w">>) }

\* the CopyItems drawn in CopySpec
CopyItems ==
    { copyItem(c, CopyPath, r, a, n) :
        c \in SeqsUpTo(CopyAlphabet, MaxLen), r \in CopyReplaces,
        a \in BOOLEAN, n \in BOOLEAN }

\* the remote file systems drawn in CopySpec: the file absent or present
CopyRemotes ==
    {[files |-> << >>, dirs |-> {}]}
    \cup {[files |-> CopyPath :> c, dirs |-> {Dir(CopyPath)}] :
            c \in SeqsUpTo(CopyAlphabet, MaxLen)}

\* one write: who wrote, the injected failure, the error, the file system
\* before and after
WriteRecord(writer, fault, res) ==
    [writer |-> writer, fault |-> fault, err |-> res.err,
     before |-> remoteFS, after |-> res.remote]

\* a call of copyItemSFTP(client, item)
WriteSFTP ==
    /\ Len(writes) < MaxWrites
    /\ \E order \in ReplaceOrders(curItem), fault \in SFTPFaults :
         LET res == copyItemSFTP(remoteFS, curItem, order, fault) IN
         /\ remoteFS' = res.remote
         /\ writes' = Append(writes, WriteRecord("sftp", fault, res))
    /\ UNCHANGED <<curItem, remoteEnv, localFS, flowVars>>

\* a call of copyItemSSH(client, item)
WriteSSH ==
    /\ Len(writes) < MaxWrites
    /\ \E order \in ReplaceOrders(curItem), fault \in SSHFaults :
         LET res == copyItemSSH(remoteFS, curItem, order, fault) IN
         /\ remoteFS' = res.remote
         /\ writes' = Append(writes, WriteRecord("ssh", fault, res))
    /\ UNCHANGED <<curItem, remoteEnv, localFS, flowVars>>

CopyInit ==
    /\ PtyIdle
    /\ curItem \in CopyItems
    /\ remoteFS \in CopyRemotes
    /\ writes = << >>
    /\ remoteEnv = [BITRISE_SOURCE_DIR |-> << >>, OSTYPE |-> << >>,
                    BITRISE_OSX_STACK_REV_ID |-> << >>, BITRISE_STACK_REV_ID |-> << >>]
    /\ localFS = << >>
    /\ initial = [localFS |-> localFS, remoteFS |-> remoteFS]
    /\ args = [host |-> "", port |-> << >>, user |-> "", password |-> NoPassword]
    /\ pc = "idle"
    /\ variant = "none"
    /\ outcome = [isMacOs |-> FALSE, folder |-> << >>]
    /\ onOpenCalls = << >>
    /\ config = NoConfig
    /\ bootErr = Nil
    /\ setupErr = Nil
    /\ client = "none"
    /\ sourceDir = << >>
    /\ useIdentiyConfig = FALSE
    /\ readmeItem = copyItem(<< >>, << >>, NoReplace, FALSE, FALSE)
    /\ afterDetectionG = NoGoroutine
    /\ afterEssentialsG = NoGoroutine
    /\ trace = << >>
    /\ detected = << >>
    /\ essentials = << >>
    /\ opened = << >>

CopyNext == WriteSFTP \/ WriteSSH

CopySpec == CopyInit /\ [][CopyNext]_vars

\* ------------------------------------------------------------------------
\* LocalSpec: the Local SSH Config Editor applied repeatedly to a local machine
\* ------------------------------------------------------------------------

\* number of calls of the editor in LocalSpec
MaxCalls == 2

\* number of lines of the user's SSH config at the start of LocalSpec
MaxLines == 2

\* the lines the user's SSH config is made of at the start
ConfigLines == {includeLine, <<"Host", "mine">>}

\* a managed file left by an earlier session with another host
StaleManaged ==
    << <<"# --- Bitrise Generated ---">>,
       <<"Host", BitriseHostPattern, "# Bitrise CI VM">>,
       <<"HostName", "old.bitrise.io">>,
       <<"User", "old">>,
       <<"Port", <<"2", "2", "2", "2">> >>,
       <<"# -------------------------">> >>

\* the local machines LocalSpec starts from: the SSH config absent or present,
\* the managed file absent or present
LocalMachines ==
    {<< >>, bitriseConfigPath :> StaleManaged}
    \cup { sshConfigPath :> lines : lines \in SeqsUpTo(ConfigLines, MaxLines) }
    \cup { (sshConfigPath :> lines) @@ (bitriseConfigPath :> StaleManaged) :
             lines \in SeqsUpTo(ConfigLines, MaxLines) }

\* the descriptors createClientConfig yields for three argument lists; the
\* first and the third differ in the password only
Descriptors ==
    { createClientConfig("10.0.0.5", <<"2", "2">>, "vagrant", <<"secret">>).config,
      createClientConfig("vm.bitrise.io", <<"6", "5", "5", "3", "5">>, "runner",
                         NoPassword).config,
      createClientConfig("10.0.0.5", <<"2", "2">>, "vagrant", <<"other">>).config }

\* one call of the editor: what was called with which arguments, the injected
\* failure, the error, the local files before and after
CallRecord(op, cfg, useIdentityKey, fault, res) ==
    [op |-> op, cfg |-> cfg, useIdentityKey |-> useIdentityKey, fault |-> fault,
     err |-> res.err, before |-> localFS, after |-> res.local]

\* a call of ensureBitriseClientConfigIncluded()
CallEnsureIncluded ==
    /\ Len(writes) < MaxCalls
    /\ \E fault \in {"none", "openConfig", "mkdirSSH", "writeConfig"} :
         LET res == ensureBitriseClientConfigIncluded(localFS, fault) IN
         /\ localFS' = res.local
         /\ writes' = Append(writes,
                CallRecord("ensureBitriseClientConfigIncluded", NoConfig, FALSE,
                           fault, res))
    /\ UNCHANGED <<curItem, remoteFS, remoteEnv, flowVars>>

\* a call of writeSSHClientConfig(configEntry, useIdentityKey)
CallWriteSSHClientConfig ==
    /\ Len(writes) < MaxCalls
    /\ \E cfg \in Descriptors, useIdentityKey \in BOOLEAN,
          fault \in {"none", "mkdirBitrise", "openBitrise", "writeBitrise"} :
         LET res == writeSSHClientConfig(localFS, cfg, useIdentityKey, fault) IN
         /\ localFS' = res.local
         /\ writes' = Append(writes,
                CallRecord("writeSSHClientConfig", cfg, useIdentityKey, fault, res))
    /\ UNCHANGED <<curItem, remoteFS, remoteEnv, flowVars>>

\* the state of the variables a specification of single functions leaves alone
Idle ==
    /\ curItem = copyItem(<< >>, << >>, NoReplace, FALSE, FALSE)
    /\ remoteFS = [files |-> << >>, dirs |-> {}]
    /\ remoteEnv = [BITRISE_SOURCE_DIR |-> << >>, OSTYPE |-> << >>,
                    BITRISE_OSX_STACK_REV_ID |-> << >>, BITRISE_STACK_REV_ID |-> << >>]
    /\ variant = "none"
    /\ outcome = [isMacOs |-> FALSE, folder |-> << >>]
    /\ onOpenCalls = << >>
    /\ bootErr = Nil
    /\ client = "none"
    /\ sourceDir = << >>
    /\ useIdentiyConfig = FALSE
    /\ readmeItem = copyItem(<< >>, << >>, NoReplace, FALSE, FALSE)
    /\ afterDetectionG = NoGoroutine
    /\ afterEssentialsG = NoGoroutine
    /\ trace = << >>
    /\ detected = << >>
    /\ essentials = << >>
    /\ opened = << >>

LocalInit ==
    /\ Idle
    /\ PtyIdle
    /\ localFS \in LocalMachines
    /\ initial = [localFS |-> localFS, remoteFS |-> remoteFS]
    /\ writes = << >>
    /\ args = [host |-> "", port |-> << >>, user |-> "", password |-> NoPassword]
    /\ config = NoConfig
    /\ setupErr = Nil
    /\ pc = "local"

LocalNext == CallEnsureIncluded \/ CallWriteSSHClientConfig

LocalSpec == LocalInit /\ [][LocalNext]_vars

\* ------------------------------------------------------------------------
\* ValidatorSpec: createClientConfig applied to one argument list
\* ------------------------------------------------------------------------

\* the strings tried as the port argument
Ports ==
    { << >>, <<"2", "2">>, <<"0">>, <<"1">>, <<"6", "5", "5", "3", "5">>,
      <<"6", "5", "5", "3", "6">>, <<"+", "2", "2">>, <<"-", "1">>, <<"2", "x">>,
      <<"0", "2", "2">>, <<"+">> }

\* the argument lists of createClientConfig that are tried
ValidatorArgs ==
    [host : {"", "10.0.0.5", "vm.bitrise.io", "nohost.invalid"},
     port : Ports,
     user : {"", "vagrant"},
     password : {NoPassword, <<"secret">>}]

\* a call of createClientConfig(host, port, user, password)
CallCreateClientConfig ==
    /\ pc = "createClientConfig"
    /\ LET r == createClientConfig(args.host, args.port, args.user, args.password) IN
       /\ config' = r.config
       /\ setupErr' = r.err
    /\ pc' = "returned"
    /\ UNCHANGED <<copyVars, inputVars, ptyVars, syncVars, hostVars, args, bootErr, bootVars,
                   afterDetectionG, afterEssentialsG, histVars>>

ValidatorInit ==
    /\ Idle
    /\ PtyIdle
    /\ args \in ValidatorArgs
    /\ localFS = << >>
    /\ initial = [localFS |-> localFS, remoteFS |-> remoteFS]
    /\ writes = << >>
    /\ config = NoConfig
    /\ setupErr = Nil
    /\ pc = "createClientConfig"

ValidatorNext == CallCreateClientConfig

ValidatorSpec == ValidatorInit /\ [][ValidatorNext]_vars

\* ------------------------------------------------------------------------
\* PtySpec: runWithPty applied to one batch of commands
\* ------------------------------------------------------------------------

\* number of commands of a batch
MaxCommands == 2

\* number of symbols of the line a command prints
MaxOut == 2

\* fmt.Sprintf("[result%d=", i), one symbol of the output
resultPrefix(i) == <<"[result0=", "[result1=", "[result2=", "[result3=">>[i + 1]

\* formattedCommand of command i: the awk program frames each line printed
formattedCommand(command, i, wantResults) ==
    IF wantResults
    THEN <<command, " | awk '{print \"", resultPrefix(i), "\"$0\"", "]", "\"}'", "\r">>
    ELSE <<command, "\r">>

RECURSIVE jointCommands(_, _, _, _)
\* jointCommands: the prefixed, formatted commands from index i on
jointCommands(cmds, prefix, wantResults, i) ==
    IF i >= Len(cmds) THEN << >>
    ELSE prefix \o formattedCommand(cmds[i + 1], i, wantResults)
         \o jointCommands(cmds, prefix, wantResults, i + 1)

RECURSIVE ShellOutput(_, _, _, _, _, _)
\* what the remote shell writes from command i on: the command line again if
\* the shell echoes it, then the line the command prints, framed by awk
ShellOutput(cmds, prefix, wantResults, lines, shellEcho, i) ==
    IF i >= Len(cmds) THEN << >>
    ELSE (IF shellEcho
          THEN prefix \o formattedCommand(cmds[i + 1], i, wantResults) \o <<"\n">>
          ELSE << >>)
         \o (IF wantResults
             THEN <<resultPrefix(i)>> \o lines[i + 1] \o <<"]", "\r\n">>
             ELSE lines[i + 1] \o <<"\r\n">>)
         \o ShellOutput(cmds, prefix, wantResults, lines, shellEcho, i + 1)

\* what the pseudo terminal sends back: the typed input if the terminal echoes,
\* then what the shell writes
SessionOutput(cmds, prefix, wantResults, lines, session) ==
    (IF session.ttyEcho
     THEN jointCommands(cmds, prefix, wantResults, 0) \o <<"exit", "\r">>
     ELSE << >>)
    \o ShellOutput(cmds, prefix, wantResults, lines, session.shellEcho, 0)

\* strings.LastIndex(s, sub)
LastIndex(s, sub) ==
    LET hits == {k \in 0..(Len(s) - Len(sub)) : SubSeq(s, k + 1, k + Len(sub)) = sub}
    IN IF hits = {} THEN 0 - 1 ELSE CHOOSE k \in hits : \A j \in hits : j <= k

\* strings.Index(s, sub)
Index(s, sub) ==
    LET hits == {k \in 0..(Len(s) - Len(sub)) : SubSeq(s, k + 1, k + Len(sub)) = sub}
    IN IF hits = {} THEN 0 - 1 ELSE CHOOSE k \in hits : \A j \in hits : k <= j

RECURSIVE extractResults(_, _, _, _)
\* runWithPty, lines 78-90: the loop filling resultMap, from index i on
extractResults(cmds, output, i, resultMap) ==
    IF i >= Len(cmds) THEN resultMap
    ELSE LET prefix == <<resultPrefix(i)>>
             found == LastIndex(output, prefix)
             startIndex == found + Len(prefix)
             endIndex == Index(SubSeq(output, startIndex + 1, Len(output)), <<"]">>)
         IN IF found # 0 - 1 /\ endIndex # 0 - 1
            THEN extractResults(cmds, output, i + 1,
                     (cmds[i + 1] :> SubSeq(output, startIndex + 1,
                                            startIndex + endIndex)) @@ resultMap)
            ELSE extractResults(cmds, output, i + 1, resultMap)

\* the failures injected into one runWithPty
PtyFaults == {"none", "session", "pty", "stdin", "shell", "send", "wait", "stderr"}

\* the behaviours of one remote session: the injected failure, whether the
\* copying goroutine Shell() starts finds session.Stdout already set to the
\* buffer (it is assigned after Shell() returns), and who echoes the input
Sessions ==
    [fault : PtyFaults, captured : BOOLEAN, ttyEcho : BOOLEAN, shellEcho : BOOLEAN]

\* runWithPty(client, commands, commandPrefix, getResults)
runWithPty(cmds, prefix, wantResults, lines, session) ==
    LET stdoutBuf == IF session.captured
                     THEN SessionOutput(cmds, prefix, wantResults, lines, session)
                     ELSE << >>
    IN
    IF session.fault = "session"
    THEN [resultMap |-> << >>, err |-> <<"create SSH session">>]
    ELSE IF session.fault = "pty"
    THEN [resultMap |-> << >>, err |-> <<"request pty", "ssh">>]
    ELSE IF session.fault = "stdin"
    THEN [resultMap |-> << >>, err |-> <<"get stdin pipe", "ssh">>]
    ELSE IF session.fault = "shell"
    THEN [resultMap |-> << >>, err |-> <<"start shell", "ssh">>]
    ELSE IF session.fault = "send"
    THEN [resultMap |-> << >>, err |-> <<"send command", "write">>]
    ELSE IF session.fault = "wait"
    THEN [resultMap |-> << >>, err |-> <<"wait for session", "exit status">>]
    ELSE IF session.fault = "stderr"
    THEN [resultMap |-> << >>, err |-> <<"stderr">>]
    ELSE IF ~wantResults
    THEN [resultMap |-> << >>, err |-> Nil]
    ELSE [resultMap |-> extractResults(cmds, stdoutBuf, 0, << >>), err |-> Nil]

\* the commands of the batches that are tried
CommandStrings == {"BITRISE_SOURCE_DIR", "OSTYPE"}

\* the symbols of the lines the commands print; none is "]"
OutputSymbols == {"A", "B", "[result0="}

\* a call of runWithPty(client, commands, commandPrefix, getResults)
CallRunWithPty ==
    /\ pc = "call runWithPty"
    /\ \E session \in Sessions :
         ptyResult' = runWithPty(commands, commandPrefix, getResults, printed, session)
    /\ pc' = "runWithPty returned"
    /\ UNCHANGED <<copyVars, hostVars, inputVars, commands, commandPrefix, getResults,
                   printed, args, config, bootErr, setupErr, bootVars,
                   afterDetectionG, afterEssentialsG, histVars, syncVars>>

PtyInit ==
    /\ Idle
    /\ localFS = << >>
    /\ initial = [localFS |-> localFS, remoteFS |-> remoteFS]
    /\ writes = << >>
    /\ args = [host |-> "", port |-> << >>, user |-> "", password |-> NoPassword]
    /\ config = NoConfig
    /\ setupErr = Nil
    /\ \E n \in 1..MaxCommands :
         /\ commands \in [1..n -> CommandStrings]
         /\ printed \in [1..n -> SeqsUpTo(OutputSymbols, MaxOut)]
    /\ commandPrefix \in {<< >>, <<"echo $">>}
    /\ getResults \in BOOLEAN
    /\ ptyResult = [resultMap |-> << >>, err |-> Nil]
    /\ pc = "call runWithPty"

PtyNext == CallRunWithPty

PtySpec == PtyInit /\ [][PtyNext]_vars

\* ------------------------------------------------------------------------
\* Claims about the bootstrap
\* ------------------------------------------------------------------------

\* the operation or log line has been recorded
Has(event) == \E i \in 1..Len(trace) : trace[i] = event

\* a was recorded before b
Before(a, b) ==
    \E i \in 1..Len(trace), j \in 1..Len(trace) : i < j /\ trace[i] = a /\ trace[j] = b

\* s is a prefix of t
IsPrefix(s, t) == Len(s) <= Len(t) /\ SubSeq(t, 1, Len(s)) = s

\* the run is a SetupSSH call (the variant with checkpoints and goroutines)
Async == variant = "SetupSSH"

\* setupRemoteConfig got past the environment detection
DetectionSucceeded == Async /\ readmeItem.Content # << >>

\* the bootstrap has returned to its caller
BootstrapReturned == Has("return")

\* C1: whenever setupRemoteConfig returns, on any path, onRemoteDetected and
\* onEssentialsDone have each been invoked exactly once.
C1_CheckpointsOnceAtReturn ==
    (Async /\ BootstrapReturned) => (Len(detected) = 1 /\ Len(essentials) = 1)

\* C2: every SetupSSH call returns: as long as it has not returned, some step
\* of the caller or of a goroutine it started can be taken, so it never
\* waits on ideLaunchDone for a value that nobody will send.
C2_SetupSSHNeverStuck ==
    Async => (pc = "returned" \/ ENABLED Next)

\* the run has no password and its removeHostKey has succeeded
NoPasswordKeyRemoved ==
    /\ config # NoConfig
    /\ config.Password = NoPassword
    /\ Has(NoOldHostKeys)

\* C3: without a password, once the old host key is removed the bootstrap
\* returns at once with no error and nothing done on the remote host: no
\* connectSSHClient, no runWithPty, no remote write; useIdentityKey stays
\* false and the source directory empty (SetupRemoteConfig returns
\* (false, "", nil), setupRemoteConfig returns nil).
C3_NoPasswordNoRemoteInteraction ==
    NoPasswordKeyRemoved =>
        /\ IsPrefix(<<"removeHostKey", NoOldHostKeys, "return">>, trace)
        /\ bootErr = Nil
        /\ client = "none"
        /\ ~Has("connectSSHClient") /\ ~Has("runWithPty") /\ ~Has("getRemoteEnvVars")
        /\ ~Has("copyItemSFTP") /\ ~Has("copyItemSSH") /\ ~Has("copyReadmeToRemote")
        /\ remoteFS = initial.remoteFS
        /\ useIdentiyConfig = FALSE /\ sourceDir = << >>
        /\ detected = << >> /\ essentials = << >>
        /\ outcome = [isMacOs |-> FALSE, folder |-> << >>]

\* C3 witness: the synchronous bootstrap has returned from a run without password
C3_Witness ==
    /\ NoPasswordKeyRemoved
    /\ variant = "openWithIDE"
    /\ pc = "SetupRemoteConfig returned"

\* the errors a failed local config write sends on clientSetupDone
ConfigWriteFailed == afterDetectionG.err # Nil

\* what C4 says of every state
C4_Swallowed ==
    DetectionSucceeded =>
        /\ bootErr = Nil
        /\ BootstrapReturned => (Len(detected) = 1 /\ Len(essentials) = 1)
        /\ pc = "returned" =>
             IF ConfigWriteFailed
             THEN setupErr = afterDetectionG.err /\ opened = << >>
             ELSE Len(opened) = 1 /\ setupErr \in {Nil, <<"open IDE">>}

\* C4: after a successful environment detection, whatever becomes of key
\* provisioning, MOTD editing and README copy, setupRemoteConfig returns nil
\* with both checkpoints fired, the caller of SetupSSH sees no provisioning
\* error, and unless the local config write fails onOpenIde is eventually
\* invoked.
C4_ProvisioningFailuresSwallowed ==
    /\ []C4_Swallowed
    /\ DetectionSucceeded ~> (Len(opened) = 1 \/ ConfigWriteFailed)

\* C4 witness: key provisioning, MOTD editing and README copy all failed and
\* the IDE was opened
C4_Witness ==
    /\ Has("Warn: ensure SSH key available on remote")
    /\ Has("Info: modifying shell config")
    /\ Has("Warn: copy README file to remote")
    /\ Len(opened) = 1
    /\ pc = "returned"

\* C5: setupClientConfig never starts before onRemoteDetected has fired, and
\* onOpenIde is never invoked before the config write has completed and
\* onEssentialsDone has fired, however the three goroutines interleave.
C5_GoroutineOrdering ==
    Async =>
        /\ Has("setupClientConfig") => Before("onRemoteDetected", "setupClientConfig")
        /\ Has("onOpenIde") =>
             /\ Before("setupClientConfig", "onOpenIde")
             /\ Before("onEssentialsDone", "onOpenIde")
             /\ afterDetectionG.pc = "done" /\ afterDetectionG.err = Nil

\* C5 witness: the IDE was opened while setupRemoteConfig was still copying
\* the README
C5_Witness ==
    /\ Async
    /\ Has("onOpenIde")
    /\ pc \in {"copyItemSFTP", "copyItemSSH"}

\* the stages of setupRemoteConfig, in the order of the code
StageChain == <<"removeHostKey", "connectSSHClient", "runWithPty", "onRemoteDetected">>

\* the stages the run has entered so far, in order
Stages == SelectSeq(trace, LAMBDA e : \E i \in 1..Len(StageChain) : StageChain[i] = e)

\* the stage whose failure produced the error setupRemoteConfig returned
FailedStage ==
    CASE bootErr[1] = "remove host key" -> 1
      [] bootErr[1] \in {OpErrorDial[1], "start client connection"} -> 2
      [] bootErr[1] = "wait for session" -> 3
      [] OTHER -> 0

\* C6: the stages setupRemoteConfig runs are a prefix of host-key cleanup,
\* connect, environment detection, OS branch; when one of the first three
\* fails, its error is returned and nothing later runs: no later stage, no
\* checkpoint, no remote write.
C6_StagesFormPrefix ==
    Async =>
        /\ IsPrefix(Stages, StageChain)
        /\ bootErr # Nil =>
             /\ BootstrapReturned
             /\ Stages = SubSeq(StageChain, 1, FailedStage)
             /\ detected = << >> /\ essentials = << >>
             /\ afterDetectionG = NoGoroutine /\ afterEssentialsG = NoGoroutine
             /\ remoteFS = initial.remoteFS
             /\ ~Has("copyItemSFTP") /\ ~Has("copyItemSSH")
             /\ ~Has("ensureClientKeyOnRemote") /\ ~Has("setupShellConfigs")

\* C6 witness: the detection batch failed after a successful connection
C6_Witness ==
    /\ Async
    /\ bootErr # Nil
    /\ FailedStage = 3
    /\ client = "closed"

\* the arguments do not pass createClientConfig, and SetupSSH has looked at them
ValidationFailed ==
    /\ createClientConfig(args.host, args.port, args.user, args.password).err # Nil
    /\ pc # "SetupSSH"

\* the bootstrap returned a dial error, and its caller has looked at it
DialFailed ==
    /\ bootErr # Nil
    /\ IsDialError(bootErr)
    /\ pc \notin {"setupRemoteConfig returned", "SetupRemoteConfig returned"}

\* C7: when createClientConfig fails or the connection fails with a dial
\* error, the caller gets a non-nil error (a ConfigErr from SetupSSH,
\* respectively the 'dial remote host' hint), no local SSH config file is
\* written and the IDE is never opened.
C7_ValidationAndDialErrorsAbort ==
    /\ ValidationFailed =>
         /\ pc = "returned"
         /\ setupErr # Nil
         /\ setupErr = LET err == createClientConfig(args.host, args.port, args.user,
                                                       args.password).err
                        IN IF Async THEN ConfigErr(err) ELSE err
         /\ localFS = initial.localFS
         /\ opened = << >> /\ onOpenCalls = << >>
    /\ DialFailed =>
         /\ pc = "returned"
         /\ setupErr = ErrDialHint
         /\ localFS = initial.localFS
         /\ ~Has("setupClientConfig") /\ ~Has("SetupClientConfig")
         /\ opened = << >> /\ onOpenCalls = << >>

\* C7 witness: SetupSSH returned the hint for an unreachable host
C7_Witness ==
    /\ Async
    /\ DialFailed
    /\ setupErr = ErrDialHint

\* C8: onRemoteDetected and onEssentialsDone get the same useIdentityKey,
\* which is true exactly when OSTYPE contains "darwin": true on the macOS
\* path whether or not the key was provisioned, false on the other paths.
C8_IdentityKeyIffDarwin ==
    Async =>
        /\ \A i \in 1..Len(detected) : detected[i] = isMacOS(remoteEnv.OSTYPE)
        /\ \A i \in 1..Len(essentials) :
             /\ essentials[i][1] = isMacOS(remoteEnv.OSTYPE)
             /\ Len(detected) >= i /\ essentials[i][1] = detected[i]

\* C8 witness: both checkpoints fired on macOS although the key was not provisioned
C8_Witness ==
    /\ Async
    /\ Has("Warn: ensure SSH key available on remote")
    /\ Len(detected) = 1 /\ Len(essentials) = 1
    /\ essentials[1][1] = TRUE

\* the source directory the essentials checkpoint is meant to deliver
ExpectedSourceDir ==
    IF ~isMacOS(remoteEnv.OSTYPE) /\ isLinux(remoteEnv.OSTYPE)
       /\ remoteEnv.BITRISE_SOURCE_DIR = << >>
    THEN <<"/bitrise/src">>
    ELSE remoteEnv.BITRISE_SOURCE_DIR

\* C9: the source directory handed to onEssentialsDone is the detected
\* BITRISE_SOURCE_DIR on the macOS and unknown-OS paths (possibly empty); on
\* the Linux path it is the detected value if that is non-empty and
\* /bitrise/src otherwise.
C9_SourceDirAtEssentials ==
    Async => \A i \in 1..Len(essentials) : essentials[i][2] = ExpectedSourceDir

\* C9 witness: a Linux host with a detected source directory has passed the
\* essentials checkpoint
C9_Witness ==
    /\ Async
    /\ isLinux(remoteEnv.OSTYPE)
    /\ remoteEnv.BITRISE_SOURCE_DIR # << >>
    /\ Len(essentials) = 1

\* ------------------------------------------------------------------------
\* Claims about the Remote File Writer
\* ------------------------------------------------------------------------

\* the error of a write rejected by the existence or duplication check
IsConflict(err) ==
    err \in {Wrap("copy to remote", ErrRemoteFileExists),
             Wrap("copy to remote", ErrAlreadyContains)}

\* two consecutive copyItemSFTP calls on the item, neither hit by an I/O failure
TwiceSFTP ==
    /\ Len(writes) >= 2
    /\ writes[1].writer = "sftp" /\ writes[1].fault = "none"
    /\ writes[2].writer = "sftp" /\ writes[2].fault = "none"

\* C10: writing the same CopyItem with NoDuplicate = true twice in a row is
\* idempotent for every such item, Append = true and a non-empty placeholder
\* map included: the second call is rejected as a conflict and leaves the
\* remote file as the first call left it.
C10_WriteTwiceIdempotent ==
    (TwiceSFTP /\ curItem.NoDuplicate) =>
        /\ IsConflict(writes[2].err)
        /\ FileAt(writes[2].after, curItem.RemotePath)
             = FileAt(writes[1].after, curItem.RemotePath)

\* ------------------------------------------------------------------------
\* Claims about the outcome classification of the bootstrap
\* ------------------------------------------------------------------------

\* the remote write logged as event was rejected as an idempotent conflict
Conflict(event) ==
    \E i \in 1..(Len(trace) - 1) :
        trace[i] = event /\ trace[i + 1] = "idempotent conflict"

\* C11: on a re-run against a host where the public key is already in
\* authorized_keys, or the README already exists, setupRemoteConfig logs the
\* writer's conflict on the "already ensured" / "already copied" info branch
\* and never as a provisioning warning
C11_ConflictLoggedAsInfo ==
    Async =>
        /\ Conflict("ensureClientKeyOnRemote") =>
             /\ Has("Info: SSH key already ensured")
             /\ ~Has("Warn: ensure SSH key available on remote")
        /\ (Conflict("copyItemSFTP") \/ Conflict("copyItemSSH")) =>
             /\ Has("Info: README file already copied")
             /\ ~Has("Warn: copy README file to remote")

\* ------------------------------------------------------------------------
\* Claims about the Local SSH Config Editor
\* ------------------------------------------------------------------------

\* the number of lines of the user's SSH config equal to the include line
IncludeCount(local) ==
    IF LocalExists(local, sshConfigPath)
    THEN Cardinality({i \in 1..Len(local[sshConfigPath]) :
                        local[sshConfigPath][i] = includeLine})
    ELSE 0

\* the first two calls are calls of ensureBitriseClientConfigIncluded that no
\* I/O failure hits, on a config holding the include line at most once
EnsuredTwice ==
    /\ pc = "local"
    /\ Len(writes) >= 2
    /\ \A i \in 1..2 : /\ writes[i].op = "ensureBitriseClientConfigIncluded"
                       /\ writes[i].fault = "none"
    /\ IncludeCount(initial.localFS) <= 1

Values(lines, key) ==
    {lines[i][2] : i \in {j \in 1..Len(lines) : lines[j][1] = key}}

\* the number of Host lines of a config file
HostBlocks(lines) == Cardinality({i \in 1..Len(lines) : lines[i][1] = "Host"})

\* call i was a writeSSHClientConfig that returned nil
Wrote(i) ==
    /\ pc = "local"
    /\ i \in 1..Len(writes)
    /\ writes[i].op = "writeSSHClientConfig"
    /\ writes[i].err = Nil

\* C13: writeSSHClientConfig overwrites: after a successful call, whatever an
\* earlier call or session wrote, the managed file holds exactly one host block,
\* for the alias BitriseRunningVM, whose HostName, User and Port are those of
\* the descriptor of this call
C13_WriteOverwrites ==
    \A i \in 1..Len(writes) :
        Wrote(i) =>
            LET file == writes[i].after[bitriseConfigPath] IN
            /\ HostBlocks(file) = 1
            /\ Values(file, "Host") = {BitriseHostPattern}
            /\ Values(file, "HostName") = {writes[i].cfg.HostName}
            /\ Values(file, "User") = {writes[i].cfg.User}
            /\ Values(file, "Port") = {writes[i].cfg.Port}

\* descriptor A was written, then descriptor B with another host, user and port
C13_Witness ==
    /\ Wrote(1) /\ Wrote(2)
    /\ writes[1].cfg.HostName # writes[2].cfg.HostName
    /\ writes[1].cfg.User # writes[2].cfg.User
    /\ writes[1].cfg.Port # writes[2].cfg.Port

\* C14: the host block written by writeSSHClientConfig holds the IdentityFile
\* reference and the IdentitiesOnly flag if and only if useIdentityKey is true;
\* when it is false the block holds neither and holds the
\* PreferredAuthentications=password hint instead
C14_IdentityEntriesIffIdentityKey ==
    \A i \in 1..Len(writes) :
        Wrote(i) =>
            LET file == writes[i].after[bitriseConfigPath] IN
            IF writes[i].useIdentityKey
            THEN /\ Values(file, "IdentityFile") = {keyPath}
                 /\ Values(file, "IdentitiesOnly") = {"yes"}
            ELSE /\ Values(file, "IdentityFile") = {}
                 /\ Values(file, "IdentitiesOnly") = {}
                 /\ Values(file, "PreferredAuthentications") = {"password"}

\* ------------------------------------------------------------------------
\* Claims about the Connection Parameter Validator
\* ------------------------------------------------------------------------

\* the port is a decimal integer p with 0 < p <= 65535
PortInRange(port) ==
    /\ Atoi(port).ok
    /\ 0 < Atoi(port).val
    /\ Atoi(port).val <= 65535

\* createClientConfig has returned
Validated == pc = "returned" /\ variant = "none"

\* C15: createClientConfig returns a descriptor if and only if host, port and
\* user are non-empty, the host is a literal IP or resolves, and the port is an
\* integer p with 0 < p <= 65535; the descriptor holds the arguments and the
\* managed alias; a failure returns an error and no descriptor
C15_ValidatorCharacterised ==
    Validated =>
        /\ (setupErr = Nil) <=>
             /\ args.host # "" /\ args.port # << >> /\ args.user # ""
             /\ args.host \in IPLiterals \cup ResolvableNames
             /\ PortInRange(args.port)
        /\ setupErr = Nil =>
             config = [Host |-> BitriseHostPattern, HostName |-> args.host,
                       User |-> args.user, Port |-> args.port,
                       Password |-> args.password]
        /\ setupErr # Nil => config = NoConfig

\* a resolvable host with the largest port and a password is accepted
C15_Witness ==
    /\ Validated
    /\ setupErr = Nil
    /\ args.host \in ResolvableNames
    /\ args.port = <<"6", "5", "5", "3", "5">>
    /\ args.password # NoPassword

\* ------------------------------------------------------------------------
\* Claims about remote command batches
\* ------------------------------------------------------------------------

\* C16: for a batch run by runWithPty in result-wanting mode in which each
\* command prints one line without "]", the returned map associates every
\* command string with exactly the line it printed, whatever echo of the
\* command text precedes it in the combined output
C16_ResultMapHoldsEachOutput ==
    (/\ pc = "runWithPty returned"
     /\ getResults
     /\ ptyResult.err = Nil) =>
        \A i \in 1..Len(commands) :
            /\ commands[i] \in DOMAIN ptyResult.resultMap
            /\ ptyResult.resultMap[commands[i]] = printed[i]

\* ------------------------------------------------------------------------
\* Claims about the order and the resources of the bootstrap
\* ------------------------------------------------------------------------

\* the positions of an event in the trace
Pos(event) == {i \in 1..Len(trace) : trace[i] = event}

\* the lines setupRemoteConfig logs when key provisioning has finished
KeyLogs ==
    {"Success: SSH key ensured", "Info: SSH key already ensured",
     "Warn: ensure SSH key available on remote"}

\* the lines setupRemoteConfig logs when MOTD editing has finished
MotdLogs == {"Success: MOTD added to shell configs", "Info: modifying shell config"}

\* C17: on the macOS path onEssentialsDone fires only after key provisioning
\* and MOTD editing have both finished, whether they succeeded or not; on the
\* macOS and the Linux path the README copy starts only after onEssentialsDone
\* was called, when the goroutine that launches the editor is already running
C17_EssentialsBetweenProvisioningAndReadme ==
    Async =>
        /\ isMacOS(remoteEnv.OSTYPE) =>
             \A j \in Pos("onEssentialsDone") :
                 /\ \E i \in 1..(j - 1) : trace[i] \in KeyLogs
                 /\ \E i \in 1..(j - 1) : trace[i] \in MotdLogs
        /\ \A j \in Pos("copyItemSFTP") \cup Pos("copyItemSSH") :
               \E i \in Pos("onEssentialsDone") : i < j
        /\ pc \in {"copyItemSFTP", "copyItemSSH"} => afterEssentialsG.pc # "none"

\* on a macOS host the editor was opened after a failed key provisioning, with
\* the README copy not yet started
C17_Witness ==
    /\ Async
    /\ isMacOS(remoteEnv.OSTYPE)
    /\ Has("Warn: ensure SSH key available on remote")
    /\ Has("onOpenIde")
    /\ pc = "copyItemSFTP"

\* the managed file holds a host block with the descriptor's host, user and port
ManagedFileOf(cfg) ==
    /\ LocalExists(localFS, bitriseConfigPath)
    /\ Values(localFS[bitriseConfigPath], "HostName") = {cfg.HostName}
    /\ Values(localFS[bitriseConfigPath], "User") = {cfg.User}
    /\ Values(localFS[bitriseConfigPath], "Port") = {cfg.Port}

\* the invocation of SetupSSH is over: it returned, or no goroutine can take
\* another step
InvocationOver == pc = "returned" \/ ~ENABLED Next

\* C18: every invocation of SetupSSH that passes validation, a no-password
\* reconnect and an invocation whose bootstrap returned an error included, has
\* rewritten the managed host file with its host, user and port when it is
\* over; left aside are the invocations that end with the dial hint and those
\* whose local config write failed
C18_ManagedFileRewrittenOnEveryInvocation ==
    (/\ Async
     /\ config # NoConfig
     /\ InvocationOver
     /\ setupErr # ErrDialHint
     /\ ~ConfigWriteFailed) => ManagedFileOf(config)

\* the operations setupRemoteConfig carries out over the connection
RemoteOps ==
    {"runWithPty", "ensureClientKeyOnRemote", "setupShellConfigs", "copyItemSFTP",
     "copyItemSSH"}

\* C19: on each return of setupRemoteConfig after connectSSHClient succeeded
\* the client has been closed exactly once; no remote command or remote file
\* operation follows the close; remote operations happen only on an opened
\* connection; and nothing is closed when the connection was never opened
C19_ClientClosedOnEveryExit ==
    Async =>
        /\ (BootstrapReturned /\ client # "none") =>
               client = "closed" /\ Cardinality(Pos("client.Close")) = 1
        /\ client = "none" => Pos("client.Close") = {}
        /\ client = "open" => Pos("client.Close") = {}
        /\ \A j \in Pos("client.Close") :
               \A i \in (j + 1)..Len(trace) : trace[i] \notin RemoteOps
        /\ client = "none" => \A i \in 1..Len(trace) : trace[i] \notin RemoteOps

\* setupRemoteConfig returned an error after the connection had been opened
C19_Witness ==
    /\ Async
    /\ BootstrapReturned
    /\ client = "closed"
    /\ bootErr # Nil

\* ------------------------------------------------------------------------
\* Claims about the password
\* ------------------------------------------------------------------------

\* the passwords a run could have been given instead
Passwords == {NoPassword, <<"secret">>, <<"other">>}

\* the goroutine of afterDetection has written the local SSH config
LocalConfigWritten ==
    /\ Async
    /\ afterDetectionG.pc \in {"send clientSetupDone", "done"}
    /\ afterDetectionG.err = Nil

MacRun == Async /\ isMacOS(remoteEnv.OSTYPE)

\* C21 as stated: on the macOS path onRemoteDetected fires only after key
\* provisioning has been carried out
C21_DetectedAfterKeyProvisioning ==
    MacRun =>
        \A j \in Pos("onRemoteDetected") :
            \E i \in 1..(j - 1) : trace[i] = "ensureClientKeyOnRemote"

\* C21 amended: on the macOS path onRemoteDetected fires, with
\* useIdentityKey true, before key provisioning starts: at the checkpoint the
\* local key files and the remote files are those the run started from; the
\* key is provisioned after it and before onEssentialsDone
C21_DetectedBeforeKeyProvisioning ==
    MacRun =>
        /\ \A j \in Pos("ensureClientKeyOnRemote") :
               \E i \in 1..(j - 1) : trace[i] = "onRemoteDetected"
        /\ \A j \in Pos("onEssentialsDone") :
               \E i \in 1..(j - 1) : trace[i] = "ensureClientKeyOnRemote"
        /\ \A i \in 1..Len(detected) : detected[i] = TRUE
        /\ pc = "ensureClientKeyOnRemote" =>
               /\ Len(detected) = 1
               /\ remoteFS = initial.remoteFS
               /\ LocalExists(localFS, keyPath) = LocalExists(initial.localFS, keyPath)

\* the checkpoint has fired and the local config is written while the key
\* pair does not exist yet
C21_Witness ==
    /\ MacRun
    /\ pc = "ensureClientKeyOnRemote"
    /\ afterDetectionG.pc = "send clientSetupDone"
    /\ ~LocalExists(localFS, keyPath)

\* ------------------------------------------------------------------------
\* Claims about the two remote writers
\* ------------------------------------------------------------------------

\* the writer's existence and duplication rule for the item and the remote
\* files of the state: the file exists and either Append is false, or Append
\* and NoDuplicate are true and the content is in the file
RejectRule ==
    /\ FileExists(remoteFS, curItem.RemotePath)
    /\ \/ ~curItem.Append
       \/ /\ curItem.NoDuplicate
          /\ Contains(FileAt(remoteFS, curItem.RemotePath), curItem.Content)

\* C22: copyItemSFTP and copyItemSSH make the same accept/reject decision for
\* every CopyItem and every state of the remote file: both reject exactly when
\* the rule says so, and an accepted write to an existing file with Append
\* appends
C22_WritersAgree ==
    pc = "idle" =>
        \A order \in ReplaceOrders(curItem) :
            LET sftp == copyItemSFTP(remoteFS, curItem, order, "none")
                ssh == copyItemSSH(remoteFS, curItem, order, "none")
                old == FileAt(remoteFS, curItem.RemotePath)
            IN
            /\ (sftp.err # Nil) <=> RejectRule
            /\ (ssh.err # Nil) <=> RejectRule
            /\ (FileExists(remoteFS, curItem.RemotePath) /\ curItem.Append
                  /\ ~RejectRule) =>
                 /\ HasPrefix(FileAt(sftp.remote, curItem.RemotePath), old)
                 /\ HasPrefix(FileAt(ssh.remote, curItem.RemotePath), old)

\* write i of CopySpec was rejected by the existence or duplication check
Rejected(i) ==
    /\ pc = "idle"
    /\ i \in 1..Len(writes)
    /\ EndsInConflict(writes[i].err)

\* C23: a remote write rejected by the existence or duplication check, by
\* copyItemSFTP or by copyItemSSH, leaves the remote file system as it was: no
\* directory created, the target file not created, truncated or appended to
C23_RejectedWriteChangesNothing ==
    \A i \in 1..Len(writes) :
        Rejected(i) => writes[i].after = writes[i].before

\* a write created the file and the next write of the item, not appending, was
\* rejected
C23_Witness ==
    /\ Rejected(2)
    /\ writes[1].err = Nil
    /\ ~FileExists(writes[1].before, curItem.RemotePath)
    /\ curItem.Content # << >>
    /\ ~curItem.Append

\* a run of SetupSSH against a remote that is not macOS
NonMacRun == Async /\ ~isMacOS(remoteEnv.OSTYPE)

\* the local file at path is as it was when the run started
SameLocalFile(path) ==
    /\ LocalExists(localFS, path) = LocalExists(initial.localFS, path)
    /\ LocalExists(localFS, path) => localFS[path] = initial.localFS[path]

\* the remote file at path is as it was when the run started
SameRemoteFile(path) ==
    /\ FileExists(remoteFS, path) = FileExists(initial.remoteFS, path)
    /\ FileAt(remoteFS, path) = FileAt(initial.remoteFS, path)

\* C24: on the Linux and unknown-OS paths the bootstrap never generates the
\* local key pair, never writes the remote authorized_keys and never edits a
\* remote shell rc file; on the unknown-OS path it copies no README either and
\* leaves the whole remote file system as it was
C24_NonMacLeavesAuthAndBannerAlone ==
    NonMacRun =>
        /\ ~Has("ensureClientKeyOnRemote")
        /\ ~Has("setupShellConfigs")
        /\ ~Has("copyItemSFTP")
        /\ SameLocalFile(keyPath)
        /\ SameLocalFile(pubKeyPath)
        /\ SameRemoteFile(authorizedKeysPath)
        /\ \A i \in 1..Len(shellConfigs) : SameRemoteFile(shellConfigs[i])
        /\ ~isLinux(remoteEnv.OSTYPE) =>
               /\ ~Has("copyItemSSH")
               /\ remoteFS = initial.remoteFS

\* a Linux run that returned after copying the README, on a machine that had no
\* key pair and a remote without authorized_keys
C24_Witness ==
    /\ NonMacRun
    /\ isLinux(remoteEnv.OSTYPE)
    /\ pc = "returned"
    /\ Has("Success: README file copied")
    /\ remoteFS # initial.remoteFS
    /\ ~LocalExists(initial.localFS, keyPath)
    /\ ~FileExists(initial.remoteFS, authorizedKeysPath)

\* C25: in every branch that copies the README, the README goes to the source
\* directory reported at the essentials checkpoint joined with
\* README_REMOTE_ACCESS.md, and the BITRISE_SOURCE_DIR placeholder is replaced
\* by that same directory, also when the Linux branch fell back to /bitrise/src
C25_ReadmeFollowsReportedSourceDir ==
    (Async /\ pc \in {"copyItemSFTP", "copyItemSSH"}) =>
        /\ Len(essentials) = 1
        /\ readmeItem.RemotePath = Join(essentials[1][2], remoteReadmeFileName)
        /\ readmeItem.Replace[sourceDirEnvVar] = essentials[1][2]

\* ------------------------------------------------------------------------
\* Claims about the hand-over between the goroutines of SetupSSH
\* ------------------------------------------------------------------------

\* what C26 says of every state in which the local config write has failed
C26_NoLaunchNoRetry ==
    (Async /\ ConfigWriteFailed) =>
        /\ opened = << >>
        /\ ~Has("onOpenIde")
        /\ Cardinality(Pos("setupClientConfig")) = 1
        /\ Len(detected) = 1
        /\ pc = "returned" => setupErr = afterDetectionG.err

\* C26: if setupClientConfig fails, onOpenIde is never invoked in that run,
\* the write is not tried again, and SetupSSH returns the error of the config
\* write to its caller
C26_ConfigWriteFailureReturned ==
    /\ []C26_NoLaunchNoRetry
    /\ (Async /\ ConfigWriteFailed)
           ~> (pc = "returned" /\ setupErr = afterDetectionG.err)

\* SetupSSH has returned the error of the failed config write after both
\* checkpoints fired
C26_Witness ==
    /\ Async
    /\ ConfigWriteFailed
    /\ pc = "returned"
    /\ setupErr = afterDetectionG.err
    /\ Len(essentials) = 1
    /\ opened = << >>

\* the local public key is a part of the remote authorized_keys
KeyAuthorized ==
    /\ LocalExists(localFS, pubKeyPath)
    /\ FileExists(remoteFS, authorizedKeysPath)
    /\ Contains(FileAt(remoteFS, authorizedKeysPath), localFS[pubKeyPath])

\* C27: whenever onOpenIde is invoked with useIdentityKey = true, the local
\* public key is present in the remote authorized_keys: key provisioning
\* succeeded or the key was already there
C27_IdentityKeyImpliesAuthorized ==
    \A i \in 1..Len(opened) : (Async /\ opened[i][1]) => KeyAuthorized

\* C28: on every path through setupRemoteConfig each checkpoint is invoked at
\* most once, onEssentialsDone is never invoked unless onRemoteDetected was
\* invoked earlier in the same run, and onOpenIde is invoked at most once per
\* SetupSSH call
C28_CheckpointsAtMostOnce ==
    Async =>
        /\ Len(detected) <= 1
        /\ Len(essentials) <= 1
        /\ Len(opened) <= 1
        /\ Cardinality(Pos("onRemoteDetected")) = Len(detected)
        /\ Cardinality(Pos("onEssentialsDone")) = Len(essentials)
        /\ Cardinality(Pos("onOpenIde")) = Len(opened)
        /\ Len(essentials) <= Len(detected)
        /\ Len(opened) <= Len(essentials)
        /\ \A e \in Pos("onEssentialsDone") :
               \E d \in Pos("onRemoteDetected") : d < e

\* SetupSSH has returned after both checkpoints fired and the IDE was opened
C28_Witness ==
    /\ Async
    /\ pc = "returned"
    /\ Len(detected) = 1
    /\ Len(essentials) = 1
    /\ Len(opened) = 1

\* the goroutine was never started or has run to its end
Finished(g) == g.pc \in {"none", "done"}

\* what C29 says of every state: a value sent on clientSetupDone has been
\* received by the second goroutine, a value sent on ideLaunchDone by SetupSSH,
\* and once SetupSSH has returned neither goroutine is left at a send or a receive
C29_NoneBlocked ==
    Async =>
        /\ afterDetectionG.pc = "done" =>
               afterEssentialsG.pc \in {"onOpenIde", "send ideLaunchDone", "done"}
        /\ afterEssentialsG.pc = "done" =>
               (pc = "returned" /\ afterDetectionG.pc = "done")
        /\ pc = "returned" => (Finished(afterDetectionG) /\ Finished(afterEssentialsG))

\* C29: in SetupSSH every send on clientSetupDone and ideLaunchDone is matched
\* by exactly one receive, each channel carries at most one value per call, and
\* when SetupSSH returns no goroutine it started is still blocked on a send or
\* a receive, in every interleaving and on every outcome of the bootstrap
C29_SendsMatched ==
    /\ []C29_NoneBlocked
    /\ [][/\ afterDetectionG.pc = "done" => afterDetectionG'.pc = "done"
          /\ afterEssentialsG.pc = "done" => afterEssentialsG'.pc = "done"]_vars
    /\ (Async /\ (\/ afterDetectionG.pc = "send clientSetupDone"
                  \/ afterEssentialsG.pc = "send ideLaunchDone"))
           ~> (pc = "returned" /\ afterDetectionG.pc = "done"
                               /\ afterEssentialsG.pc = "done")

\* SetupSSH has returned with both goroutines run to their end and the IDE opened
C29_Witness ==
    /\ Async
    /\ pc = "returned"
    /\ afterDetectionG.pc = "done"
    /\ afterEssentialsG.pc = "done"
    /\ Len(opened) = 1

\* ------------------------------------------------------------------------
\* Claims about openWithIDE
\* ------------------------------------------------------------------------

\* the run is a run of openWithIDE
SyncRun == variant = "openWithIDE"

\* the error openWithIDE returns when the root directory was not confirmed
ErrNoSourceDir == <<"source code location could not be determined">>

\* the prompt did not return true without error: it failed, or the answer was no
Declined ==
    /\ Has("Confirm")
    /\ ~Has("Info: Using root directory")
    /\ pc # "sync Confirm"

\* C30: openWithIDE launches the editor on an empty remote folder only after
\* the user confirmed using the root directory; when the folder is empty and
\* the confirmation returns false or an error it returns the error 'source
\* code location could not be determined' and OnOpen is never called; when the
\* folder is non-empty no confirmation is requested
C30_EmptyFolderNeedsConfirmation ==
    SyncRun =>
        /\ \A i \in 1..Len(onOpenCalls) :
               onOpenCalls[i][2] = << >> =>
                   \E c \in Pos("Info: Using root directory") :
                       \A o \in Pos("OnOpen") : c < o
        /\ Declined =>
               /\ pc = "returned"
               /\ setupErr = ErrNoSourceDir
               /\ onOpenCalls = << >>
               /\ ~Has("OnOpen")
        /\ Has("Confirm") => (outcome.folder = << >> /\ Has("SetupClientConfig"))
        /\ pc = "sync Confirm" => outcome.folder = << >>
        /\ (pc = "sync OnOpen" /\ outcome.folder # << >>) => ~Has("Confirm")
        /\ Len(onOpenCalls) <= 1
        /\ Cardinality(Pos("Confirm")) <= 1

\* the editor was opened on the root directory after the user confirmed
C30_Witness ==
    /\ SyncRun
    /\ pc = "returned"
    /\ onOpenCalls = << <<BitriseHostPattern, << >> >> >>
    /\ Has("Info: Using root directory")

====
